---- MODULE Spec2Model ----
(***************************************************************************)
(* Model of the openlink-coldfire GDB server (src/src/m68k-gdbserver.c),   *)
(* its flash engine (src/src/flash_gpl.c, src/src/elf_loader.c) and the    *)
(* on-target flashloader (src/flashloader/flashloader.c).                  *)
(*                                                                         *)
(* Six specifications share this module:                                   *)
(*   Spec      the debug coordinator: one action per RSP packet handler,   *)
(*             the target and pod as the environment;                      *)
(*   SpecRx    the byte-level receive loop of handle_client;               *)
(*   SpecFlash the vFlash session and the flashloader;                     *)
(*   SpecBp    the Z/z handlers with the debug module's registers and the  *)
(*             target memory they patch;                                   *)
(*   SpecFn    library functions applied once to inputs drawn from bounded *)
(*             sets;                                                       *)
(*   SpecPod   the host-to-pod command layer                               *)
(*             (src/src/openlink_protocol.c): the persistent command       *)
(*             buffer, the commands each operation issues and the pod's    *)
(*             replies.                                                    *)
(*                                                                         *)
(* Representation: a 32-bit register whose bits are only set, cleared and  *)
(* tested (tdr_shadow) is the set of its 1-bit positions.  Replies are     *)
(* tuples: <<"S05">>, <<"E", n>>, <<"hex8", v>>, <<"T05watch", addr>>.     *)
(***************************************************************************)
EXTENDS Integers, Sequences, FiniteSets, TLC

VARIABLES
    \* ---- debug coordinator (m68k-gdbserver.c globals)
    g_target_halted,        \* int flag: recorded target state
    g_step_count,           \* single-steps since the last mode reset
    g_cached_pc,            \* fallback PC (reset vector)
    g_registers_initialized,
    hw_breakpoints,         \* [0..3 -> address]
    hw_breakpoint_used,     \* [0..3 -> 0/1]
    watchpoints,            \* watchpoints[0]: [addr, length, type, active]
    tdr_shadow,             \* shadow of the write-only TDR (set of 1-bits)
    conn,                   \* "open" while handle_client serves a client
    last,                   \* what the last handled packet/byte did
    \* ---- the target CPU behind the pod (environment)
    tgt_running,            \* the CPU is really executing
    tgt_pc,                 \* the CPU's real program counter
    steps_since_reset,      \* history: single-step GOs since last F8-F0-F8
    \* ---- receive loop of handle_client (SpecRx)
    rx_buffer,              \* buffer[0 .. buf_pos-1]
    buf_pos,
    rx_sock,                \* bytes the client sent that recv has not returned yet
    rx_stream,              \* history: every byte the client sent on this connection
    rx_base,                \* history: stream offset of buffer[0]
    rx_last,                \* what the last recv iteration sent and dispatched
    rx_oob,                 \* a recv wrote below buffer[0]
    \* ---- vFlash session and flash array (SpecFlash)
    flash_state,
    flash,                  \* target flash bytes
    vf_last,                \* what the last vFlash packet did
    vf_writes,              \* history: vFlashWrite packets of this session
    vf_erased,              \* history: addresses erased in this session
    vf_count,               \* packets handled so far (bounded)
    vf_ops,                 \* history: loader operations run in this session
    \* ---- breakpoint resources of the target and the server (SpecBp)
    tgt_pbr,                \* the debug module's PBR0..PBR3 (write-only)
    tgt_tdr,                \* the debug module's TDR (write-only, set of 1-bits)
    tgt_mem,                \* target memory, one 16-bit value per even address
    sw_breakpoints,         \* [slot -> [addr, original_insn, active]]
    bp_last,                \* what the last Z/z packet did
    bp_count,               \* Z/z packets handled so far (bounded)
    bp_faults,              \* of these, packets hit by a failed USB transfer
    \* ---- library functions applied to drawn inputs (SpecFn)
    fn_last,                \* the last call: its inputs and what it returned
    \* ---- host-to-pod command layer (SpecPod)
    g_cmd_buffer,           \* the persistent command buffer: its 256 bytes in order
    pod_last,               \* what the last host operation sent, got and returned
    pod_count               \* host operations run so far (bounded)

coordVars == <<g_target_halted, g_step_count, g_cached_pc, g_registers_initialized,
               hw_breakpoints, hw_breakpoint_used, watchpoints, tdr_shadow,
               conn, last, tgt_running, tgt_pc, steps_since_reset>>
rxVars == <<rx_buffer, buf_pos, rx_sock, rx_stream, rx_base, rx_last, rx_oob>>
flashVars == <<flash_state, flash, vf_last, vf_writes, vf_erased, vf_count, vf_ops>>
bpVars == <<tgt_pbr, tgt_tdr, tgt_mem, sw_breakpoints, bp_last, bp_count, bp_faults>>
fnVars == <<fn_last>>
podVars == <<g_cmd_buffer, pod_last, pod_count>>
vars == <<coordVars, rxVars, flashVars, bpVars, fnVars, podVars>>

(***************************************************************************)
(* Bounds of the model                                                     *)
(***************************************************************************)
\* Addresses that packets name and that the PC takes: 0 .. MaxAddr.
MaxAddr == 1

Addrs == 0 .. MaxAddr
None == "none"
\* A 'c' or 's' packet that names no resume address.
NoAddr == 0 - 1

(***************************************************************************)
(* Program constants                                                       *)
(***************************************************************************)
MAX_HW_BREAKPOINTS == 4
REG_PC == 17
NUM_REGISTERS == 18
WP_TYPE_NONE == 0
WP_TYPE_WRITE == 2
WP_TYPE_READ == 3
WP_TYPE_ACCESS == 4

\* TDR bit masks, as sets of bit positions.
TDR_TRC_HALT == {30}
TDR_EBL1 == {13}
TDR_EAR1 == {10}
TDR_EPC1 == {9}
TDR_EAL_MASK == {14, 15}
TDR_EAL_INSIDE == {14}
TDR_DRW_READ == {21}
TDR_DRW_WRITE == {20}
TDR_DRW_RW == {20, 21}
TdrSlotBit(slot) == {24 + slot}

\* handle_continue: the freeze poll runs at most this many iterations and
\* reads CSR on every CSR_POLL_EVERY-th one.
CONTINUE_POLLS == 5000
CSR_POLL_EVERY == 10
\* handle_step: single-steps allowed before the F8-F0-F8 mode reset.
STEP_LIMIT == 2

(***************************************************************************)
(* Environment: USB failures.  A handler runs with one failure scenario:   *)
(* no call fails, every call fails (pod unplugged), or the one named call  *)
(* site fails (a transient error).                                         *)
(***************************************************************************)
Fails(f, site) == f = "all" \/ f = site
FailScenarios(sites) == {"ok", "all"} \cup sites
\* Some USB call the handler made failed: used = the call sites it reached.
UsbError(f, used) == (f = "all" /\ used # {}) \/ f \in used

Last(pkt, replies, log, usb_err) ==
    [pkt |-> pkt, replies |-> replies, log |-> log, usb_err |-> usb_err,
     polls |-> 0, timeout |-> FALSE,
     reset_fired |-> FALSE, reset_actual_pc |-> 0, reset_saved_pc |-> 0,
     reset_written |-> FALSE]

(***************************************************************************)
(* The target's flash holds the reset vector; init_register_cache and      *)
(* "monitor reset" read it.                                                *)
(***************************************************************************)
ResetVectorPc == MaxAddr
\* "monitor reset" falls back to this PC when neither flash nor cache has one.
DEFAULT_RESET_PC == 1024
PcValues == Addrs \cup {DEFAULT_RESET_PC}

(***************************************************************************)
(* Register access                                                         *)
(***************************************************************************)
\* init_register_cache: first successful read of the vector table fills the
\* cache.  Returns <<g_registers_initialized', g_cached_pc'>>.
init_register_cache(initialized, cached, f) ==
    IF initialized = 1 THEN <<initialized, cached>>
    ELSE IF Fails(f, "cache") THEN <<initialized, cached>>
    ELSE <<1, ResetVectorPc>>

\* read_cpu_register(REG_PC, &value): the value handed to the caller.  The
\* function returns 0 whether or not cmd_read_pc worked.
read_cpu_register_pc(read_failed, cached, actual) ==
    IF read_failed THEN cached ELSE actual

\* write_cpu_register(REG_PC, v) = cmd_write_pc: the target's PC afterwards.
write_cpu_register_pc(write_failed, actual, v) ==
    IF write_failed THEN actual ELSE v

(***************************************************************************)
(* Watchpoint hit test and stop reply (handle_continue's tail)             *)
(***************************************************************************)
\* check_watchpoint_hit: the watched address, or 0 for "no hit".
check_watchpoint_hit(wp, tdr) ==
    IF wp.active = 0 THEN 0
    ELSE IF (TDR_EAR1 \subseteq tdr) /\ (TDR_TRC_HALT \subseteq tdr) THEN wp.addr
    ELSE 0

\* The stop reply handle_continue sends.
ContinueStopReply(wp, tdr) ==
    LET wp_addr == check_watchpoint_hit(wp, tdr)
    IN  IF wp_addr # 0 THEN <<"T05watch", wp_addr>> ELSE <<"S05">>

(***************************************************************************)
(* handle_continue                                                         *)
(***************************************************************************)
Never == 0 - 1
\* Poll iterations at which the running target may halt by itself.
HaltTimes == {0, Never}

\* The iteration at which the poll loop of handle_continue breaks, or Never
\* (timeout).  h: iteration from which the target is halted; seen_by: what
\* reports that halt ("freeze": cmd_bdm_freeze; "bkpt": CSR bit 24, read only
\* on iterations with i % 10 = 9; "nothing": neither).
ContinuePollExit(h, seen_by) ==
    LET i == IF seen_by = "freeze" THEN h
             ELSE h + (CSR_POLL_EVERY - 1) - (h % CSR_POLL_EVERY)
    IN  IF h = Never \/ seen_by = "nothing" THEN Never
        ELSE IF i < CONTINUE_POLLS THEN i ELSE Never

\* BDM commands handle_continue issues once the poll timed out.
\* Faulty variant: a timeout path that reports the stop without forcing the halt.
ContinueTimeoutLog_NoHalt ==
    <<"enter_mode_F8", "read_csr", "read_pc">>

ContinueTimeoutLog ==
    <<"halt", "enter_mode_F8", "freeze_verify", "read_csr", "read_pc">>

ContinueSites == {"write_pc", "go", "halt", "cache"}

handle_continue(data, f, halt_at, seen_by, npc) ==
    LET pc1  == IF data # NoAddr
                THEN write_cpu_register_pc(Fails(f, "write_pc"), tgt_pc, data)
                ELSE tgt_pc
        run  == IF Fails(f, "go") THEN tgt_running ELSE TRUE
        h    == IF run THEN halt_at ELSE 0
        exit == ContinuePollExit(h, IF f = "all" THEN "nothing" ELSE seen_by)
        timeout == exit = Never
        polls == IF timeout THEN CONTINUE_POLLS ELSE exit + 1
        halt_ok == timeout /\ ~Fails(f, "halt")
        wp_addr == check_watchpoint_hit(watchpoints, tdr_shadow)
        cache == IF wp_addr = 0
                 THEN init_register_cache(g_registers_initialized, g_cached_pc, f)
                 ELSE <<g_registers_initialized, g_cached_pc>>
        log  == (IF data # NoAddr THEN <<"write_pc">> ELSE <<>>)
                \o <<"read_pc", "enter_mode_F8", "go", "freeze_poll">>
                \o (IF timeout THEN ContinueTimeoutLog ELSE <<>>)
                \o (IF wp_addr = 0 THEN <<"read_pc">> ELSE <<>>)
                \o <<"send_stop_reply">>
        used == (IF data # NoAddr THEN {"write_pc"} ELSE {}) \cup {"go"}
                \cup (IF timeout THEN {"halt"} ELSE {})
                \cup (IF wp_addr = 0 /\ g_registers_initialized = 0
                      THEN {"cache"} ELSE {})
    IN  /\ conn = "open"
        /\ tgt_running' = IF h # Never \/ halt_ok THEN FALSE ELSE run
        /\ tgt_pc' = IF run THEN npc ELSE pc1
        /\ g_target_halted' = 1
        /\ g_registers_initialized' = cache[1]
        /\ g_cached_pc' = cache[2]
        /\ last' = [Last("c", <<ContinueStopReply(watchpoints, tdr_shadow)>>,
                         log, UsbError(f, used))
                    EXCEPT !.polls = polls, !.timeout = timeout]
        /\ UNCHANGED <<g_step_count, hw_breakpoints, hw_breakpoint_used,
                       watchpoints, tdr_shadow, conn, steps_since_reset>>

PktContinue ==
    \E data \in {NoAddr} \cup Addrs, f \in FailScenarios(ContinueSites),
       halt_at \in HaltTimes, seen_by \in {"freeze", "bkpt"}, npc \in Addrs :
        handle_continue(data, f, halt_at, seen_by, npc)

(***************************************************************************)
(* handle_step and the single-step workaround                              *)
(***************************************************************************)
\* Faulty variant: the mode reset comes one step late.
StepNeedsReset_Late(count) == count >= STEP_LIMIT + 1

\* handle_step's test "g_step_count >= 2" before a step.
StepNeedsReset(count) == count >= STEP_LIMIT

\* reset_single_step_capability: the PC it saves, the commands it issues and
\* the PC the target holds afterwards.  Returns a record.
reset_single_step_capability(f, cached, actual) ==
    LET saved_pc == read_cpu_register_pc(Fails(f, "reset_read_pc"), cached, actual)
    IN  [saved_pc |-> saved_pc,
         log |-> <<"read_pc", "enter_mode_F8", "enter_mode_F0", "enter_mode_F8",
                   "write_pc">>,
         pc |-> write_cpu_register_pc(Fails(f, "reset_write_pc"), actual, saved_pc),
         written |-> ~Fails(f, "reset_write_pc")]

StepSites == {"write_pc", "cache", "reset_read_pc", "reset_write_pc",
              "read_csr", "write_csr", "go", "halt"}

handle_step(data, f, auto_halt, npc) ==
    LET pc1   == IF data # NoAddr
                 THEN write_cpu_register_pc(Fails(f, "write_pc"), tgt_pc, data)
                 ELSE tgt_pc
        reset == StepNeedsReset(g_step_count)
        cache == init_register_cache(g_registers_initialized, g_cached_pc, f)
        rs    == reset_single_step_capability(f, cache[2], pc1)
        pc2   == IF reset THEN rs.pc ELSE pc1
        count == IF reset THEN 0 ELSE g_step_count
        since == IF reset THEN 0 ELSE steps_since_reset
        csr_failed == Fails(f, "read_csr") \/ Fails(f, "write_csr")
        run   == IF Fails(f, "go") THEN tgt_running ELSE TRUE
        \* cmd_bdm_freeze reports the freeze: the CPU stopped after the one
        \* instruction (or never ran) and the pod answered
        seen  == (~run \/ auto_halt) /\ f # "all"
        log0  == (IF data # NoAddr THEN <<"write_pc">> ELSE <<>>)
                 \o (IF reset THEN rs.log ELSE <<>>)
                 \o <<"read_pc", "read_csr">>
        log1  == log0 \o <<"write_csr", "go_step", "freeze_poll">>
                 \o (IF seen THEN <<>> ELSE <<"halt">>)
                 \o <<"read_csr", "write_csr", "read_pc">>
        used  == (IF data # NoAddr THEN {"write_pc"} ELSE {})
                 \cup (IF reset THEN {"reset_read_pc", "reset_write_pc"} ELSE {})
                 \cup (IF g_registers_initialized = 0 THEN {"cache"} ELSE {})
                 \cup {"read_csr", "write_csr"}
                 \cup (IF csr_failed THEN {} ELSE {"go"})
                 \cup (IF csr_failed \/ seen THEN {} ELSE {"halt"})
        base  == [Last("s", <<<<"S05">>>>, <<>>, UsbError(f, used))
                  EXCEPT !.reset_fired = reset,
                         !.reset_actual_pc = IF reset THEN pc1 ELSE 0,
                         !.reset_saved_pc = IF reset THEN rs.saved_pc ELSE 0,
                         !.reset_written = reset /\ rs.written]
    IN  /\ conn = "open"
        /\ g_registers_initialized' = cache[1]
        /\ g_cached_pc' = cache[2]
        /\ IF csr_failed
           THEN \* "Report halt anyway": no GO, counter and flag untouched
                /\ g_step_count' = count
                /\ steps_since_reset' = since
                /\ tgt_pc' = pc2
                /\ last' = [base EXCEPT !.log = IF Fails(f, "read_csr") THEN log0
                                               ELSE log0 \o <<"write_csr">>]
                /\ UNCHANGED <<g_target_halted, tgt_running>>
           ELSE /\ g_step_count' = count + 1
                /\ steps_since_reset' = since + 1
                /\ tgt_pc' = IF run THEN npc ELSE pc2
                /\ tgt_running' = (run /\ ~auto_halt /\ Fails(f, "halt"))
                /\ g_target_halted' = 1
                /\ last' = [base EXCEPT !.log = log1]
        /\ UNCHANGED <<hw_breakpoints, hw_breakpoint_used, watchpoints,
                       tdr_shadow, conn>>

PktStep ==
    \E data \in {NoAddr} \cup Addrs, f \in FailScenarios(StepSites),
       auto_halt \in BOOLEAN, npc \in Addrs :
        handle_step(data, f, auto_halt, npc)

(***************************************************************************)
(* handle_client's 0x03 branch, '?', 'k', 'D', unknown packets             *)
(***************************************************************************)
\* 0x03 outside a packet: flag set, "S02" sent; no BDM command is issued.
Interrupt ==
    /\ conn = "open"
    /\ g_target_halted' = 1
    /\ last' = Last("0x03", <<<<"S02">>>>, <<>>, FALSE)
    /\ UNCHANGED <<g_step_count, g_cached_pc, g_registers_initialized,
                   hw_breakpoints, hw_breakpoint_used, watchpoints, tdr_shadow,
                   conn, tgt_running, tgt_pc, steps_since_reset>>

\* Faulty variant: detach returns without sending its OK.
SimpleReplies_SilentDetach(c) ==
    CASE c = "k" -> <<>>
      [] c = "D" -> <<>>
      [] c = "?" -> <<<<"S05">>>>
      [] c = "H" -> <<<<"OK">>>>
      [] c = "Q" -> <<<<"OK">>>>
      [] OTHER   -> <<<<"">>>>

\* What process_command does for a packet that touches no state: the replies
\* it sends.  'k' returns without sending; 'D' sends OK; '?' sends S05;
\* 'H' and 'Q' send OK; anything unknown gets the empty packet.
SimpleReplies(c) ==
    CASE c = "k" -> <<>>
      [] c = "D" -> <<<<"OK">>>>
      [] c = "?" -> <<<<"S05">>>>
      [] c = "H" -> <<<<"OK">>>>
      [] c = "Q" -> <<<<"OK">>>>
      [] OTHER   -> <<<<"">>>>

\* handle_client after process_command returns: the return value is dropped
\* and the loop goes on with the next packet, so the connection stays as it is.
ConnAfterCommand(c, cn) == cn

PktSimple(c) ==
    /\ conn = "open"
    /\ last' = Last(c, SimpleReplies(c), <<>>, FALSE)
    /\ conn' = ConnAfterCommand(c, conn)
    /\ UNCHANGED <<g_target_halted, g_step_count, g_cached_pc,
                   g_registers_initialized, hw_breakpoints, hw_breakpoint_used,
                   watchpoints, tdr_shadow, tgt_running, tgt_pc,
                   steps_since_reset>>

PktKill == PktSimple("k")
PktDetach == PktSimple("D")
PktHaltReason == PktSimple("?")
PktOther == \E c \in {"H", "Q", "X"} : PktSimple(c)

(***************************************************************************)
(* 'p' and 'P' on the program counter and on registers the chip lacks      *)
(***************************************************************************)
\* Register numbers the packets of the model name: PC, FP0, FPCONTROL, and
\* one beyond every known register.
RegNums == {REG_PC, NUM_REGISTERS, 26, 29}

handle_read_register(reg_num, f) ==
    LET cache == init_register_cache(g_registers_initialized, g_cached_pc, f)
        value == read_cpu_register_pc(Fails(f, "read_pc"), cache[2], tgt_pc)
        reply == IF reg_num >= NUM_REGISTERS
                 THEN IF reg_num >= 18 /\ reg_num <= 25 THEN <<"zeros24">>
                      ELSE IF reg_num >= 26 /\ reg_num <= 28 THEN <<"hex8", 0>>
                      ELSE <<"">>
                 ELSE <<"hex8", value>>
        touched == reg_num < NUM_REGISTERS
    IN  /\ conn = "open"
        /\ g_registers_initialized' = IF touched THEN cache[1]
                                      ELSE g_registers_initialized
        /\ g_cached_pc' = IF touched THEN cache[2] ELSE g_cached_pc
        /\ last' = Last("p", <<reply>>, IF touched THEN <<"read_pc">> ELSE <<>>,
                        touched /\ UsbError(f, {"read_pc"} \cup
                            (IF g_registers_initialized = 0 THEN {"cache"} ELSE {})))
        /\ UNCHANGED <<g_target_halted, g_step_count, hw_breakpoints,
                       hw_breakpoint_used, watchpoints, tdr_shadow, conn,
                       tgt_running, tgt_pc, steps_since_reset>>

handle_write_register(reg_num, value, f) ==
    LET touched == reg_num < NUM_REGISTERS
        reply == IF ~touched THEN <<"E", 0>>
                 ELSE IF Fails(f, "write_pc") THEN <<"E", 1>>
                 ELSE <<"OK">>
    IN  /\ conn = "open"
        /\ tgt_pc' = IF touched
                     THEN write_cpu_register_pc(Fails(f, "write_pc"), tgt_pc, value)
                     ELSE tgt_pc
        /\ last' = Last("P", <<reply>>, IF touched THEN <<"write_pc">> ELSE <<>>,
                        touched /\ f # "ok")
        /\ UNCHANGED <<g_target_halted, g_step_count, g_cached_pc,
                       g_registers_initialized, hw_breakpoints, hw_breakpoint_used,
                       watchpoints, tdr_shadow, conn, tgt_running,
                       steps_since_reset>>

PktReadRegister ==
    \E reg_num \in RegNums, f \in FailScenarios({"read_pc", "cache"}) :
        handle_read_register(reg_num, f)

PktWriteRegister ==
    \E reg_num \in {REG_PC, NUM_REGISTERS}, value \in Addrs,
       f \in FailScenarios({"write_pc"}) :
        handle_write_register(reg_num, value, f)

(***************************************************************************)
(* handle_query: qRcmd monitor commands                                    *)
(***************************************************************************)
MonitorReset(f) ==
    LET read_pc  == IF Fails(f, "read_vec") THEN 0 ELSE ResetVectorPc
        reset_pc == IF read_pc = 0
                    THEN IF g_cached_pc # 0 THEN g_cached_pc ELSE DEFAULT_RESET_PC
                    ELSE read_pc
    IN  /\ tgt_pc' = write_cpu_register_pc(Fails(f, "write_pc"), tgt_pc, reset_pc)
        /\ g_target_halted' = 1
        /\ last' = Last("qRcmd,reset", <<<<"hex", "Reset OK">>>>,
                        <<"read_vec", "write_sp", "write_pc">>, f # "ok")
        /\ UNCHANGED tgt_running

MonitorHalt(f) ==
    /\ tgt_running' = IF Fails(f, "halt") THEN tgt_running ELSE FALSE
    /\ g_target_halted' = 1
    /\ last' = Last("qRcmd,halt", <<<<"hex", "OK">>>>, <<"halt">>, f # "ok")
    /\ UNCHANGED tgt_pc

MonitorGo(f) ==
    /\ tgt_running' = IF Fails(f, "go") THEN tgt_running ELSE TRUE
    /\ g_target_halted' = 0
    /\ last' = Last("qRcmd,go", <<<<"hex", "OK">>>>, <<"enter_mode_F8", "go">>,
                    f # "ok")
    /\ UNCHANGED tgt_pc

MonitorUnknown ==
    /\ last' = Last("qRcmd,?", <<<<"hex", "Unknown command">>>>, <<>>, FALSE)
    /\ UNCHANGED <<tgt_pc, tgt_running, g_target_halted>>

PktMonitor ==
    /\ conn = "open"
    /\ \/ \E f \in FailScenarios({"read_vec", "write_pc"}) : MonitorReset(f)
       \/ \E f \in FailScenarios({}) : MonitorHalt(f)
       \/ \E f \in FailScenarios({}) : MonitorGo(f)
       \/ MonitorUnknown
    /\ UNCHANGED <<g_step_count, g_cached_pc, g_registers_initialized,
                   hw_breakpoints, hw_breakpoint_used, watchpoints, tdr_shadow,
                   conn, steps_since_reset>>

(***************************************************************************)
(* Hardware breakpoints and the watchpoint (shadow TDR bookkeeping)        *)
(***************************************************************************)
Slots == 0 .. (MAX_HW_BREAKPOINTS - 1)
NoSlot == 0 - 1
MinOf(S) == CHOOSE x \in S : \A y \in S : x <= y

\* A set_hw_breakpoint that does not enable PC triggering (no EPC1).
set_hw_breakpoint_NoEpc(addr, f) ==
    LET free == {i \in Slots : hw_breakpoint_used[i] = 0}
        slot == IF free = {} THEN NoSlot ELSE MinOf(free)
        tdr  == tdr_shadow \cup TDR_TRC_HALT \cup TDR_EBL1 \cup TdrSlotBit(slot)
    IN  IF slot = NoSlot \/ Fails(f, "pbr")
        THEN <<NoSlot, hw_breakpoints, hw_breakpoint_used, tdr_shadow>>
        ELSE IF Fails(f, "tdr")
        THEN <<NoSlot, hw_breakpoints, hw_breakpoint_used, tdr>>
        ELSE <<slot, [hw_breakpoints EXCEPT ![slot] = addr],
               [hw_breakpoint_used EXCEPT ![slot] = 1], tdr>>

\* set_hw_breakpoint: <<result, hw_breakpoints', hw_breakpoint_used', tdr_shadow'>>
set_hw_breakpoint(addr, f) ==
    LET free == {i \in Slots : hw_breakpoint_used[i] = 0}
        slot == IF free = {} THEN NoSlot ELSE MinOf(free)
        tdr  == tdr_shadow \cup TDR_TRC_HALT \cup TDR_EBL1 \cup TDR_EPC1
                           \cup TdrSlotBit(slot)
    IN  IF slot = NoSlot \/ Fails(f, "pbr")
        THEN <<NoSlot, hw_breakpoints, hw_breakpoint_used, tdr_shadow>>
        ELSE IF Fails(f, "tdr")
        THEN <<NoSlot, hw_breakpoints, hw_breakpoint_used, tdr>>
        ELSE <<slot, [hw_breakpoints EXCEPT ![slot] = addr],
               [hw_breakpoint_used EXCEPT ![slot] = 1], tdr>>

\* A clear_hw_breakpoint that disables PC triggering on every removal.
clear_hw_breakpoint_AlwaysDisable(addr) ==
    LET hit  == {i \in Slots : hw_breakpoint_used[i] = 1 /\ hw_breakpoints[i] = addr}
        slot == IF hit = {} THEN NoSlot ELSE MinOf(hit)
        tdr2 == tdr_shadow \ (TdrSlotBit(slot) \cup TDR_EBL1 \cup TDR_EPC1)
    IN  IF slot = NoSlot
        THEN <<NoSlot, hw_breakpoints, hw_breakpoint_used, tdr_shadow>>
        ELSE <<0, [hw_breakpoints EXCEPT ![slot] = 0],
               [hw_breakpoint_used EXCEPT ![slot] = 0], tdr2>>

\* clear_hw_breakpoint: <<result, hw_breakpoints', hw_breakpoint_used', tdr_shadow'>>
clear_hw_breakpoint(addr) ==
    LET hit  == {i \in Slots : hw_breakpoint_used[i] = 1 /\ hw_breakpoints[i] = addr}
        slot == IF hit = {} THEN NoSlot ELSE MinOf(hit)
        any_active == \E i \in Slots : i # slot /\ hw_breakpoint_used[i] = 1
        tdr1 == tdr_shadow \ TdrSlotBit(slot)
        tdr2 == IF any_active THEN tdr1 ELSE tdr1 \ (TDR_EBL1 \cup TDR_EPC1)
    IN  IF slot = NoSlot
        THEN <<NoSlot, hw_breakpoints, hw_breakpoint_used, tdr_shadow>>
        ELSE <<0, [hw_breakpoints EXCEPT ![slot] = 0],
               [hw_breakpoint_used EXCEPT ![slot] = 0], tdr2>>

NoWatchpoint == [addr |-> 0, length |-> 0, type |-> WP_TYPE_NONE, active |-> 0]

TdrDrwBits(type) ==
    CASE type = WP_TYPE_WRITE  -> TDR_DRW_WRITE
      [] type = WP_TYPE_READ   -> TDR_DRW_READ
      [] type = WP_TYPE_ACCESS -> TDR_DRW_RW

\* set_watchpoint: <<result, watchpoints[0]', tdr_shadow'>>
set_watchpoint(addr, length, type, f) ==
    LET tdr == ((tdr_shadow \cup TDR_TRC_HALT \cup TDR_EBL1 \cup TDR_EAR1
                            \cup TDR_EAL_INSIDE) \ TDR_DRW_RW) \cup TdrDrwBits(type)
    IN  IF watchpoints.active # 0 \/ Fails(f, "ablr") \/ Fails(f, "abhr")
        THEN <<NoSlot, watchpoints, tdr_shadow>>
        ELSE IF Fails(f, "tdr")
        THEN <<NoSlot, watchpoints, tdr>>
        ELSE <<0, [addr |-> addr, length |-> length, type |-> type, active |-> 1],
               tdr>>

\* A clear_watchpoint that never disables triggering.
clear_watchpoint_KeepTrigger(addr, length, type) ==
    LET tdr1 == tdr_shadow \ (TDR_EAR1 \cup TDR_EAL_MASK \cup TDR_DRW_RW)
    IN  IF watchpoints.active = 0 THEN <<NoSlot, watchpoints, tdr_shadow>>
        ELSE IF watchpoints.addr # addr \/ watchpoints.length # length
                \/ watchpoints.type # type
        THEN <<NoSlot, watchpoints, tdr_shadow>>
        ELSE <<0, [addr |-> 0, length |-> 0, type |-> WP_TYPE_NONE, active |-> 0],
               tdr1>>

\* clear_watchpoint: <<result, watchpoints[0]', tdr_shadow'>>
clear_watchpoint(addr, length, type) ==
    LET any_bp_active == \E i \in Slots : hw_breakpoint_used[i] = 1
        tdr1 == tdr_shadow \ (TDR_EAR1 \cup TDR_EAL_MASK \cup TDR_DRW_RW)
        tdr2 == IF any_bp_active THEN tdr1 ELSE tdr1 \ (TDR_TRC_HALT \cup TDR_EBL1)
    IN  IF watchpoints.active = 0 THEN <<NoSlot, watchpoints, tdr_shadow>>
        ELSE IF watchpoints.addr # addr \/ watchpoints.length # length
                \/ watchpoints.type # type
        THEN <<NoSlot, watchpoints, tdr_shadow>>
        ELSE <<0, NoWatchpoint, tdr2>>

\* Z/z packet types: 1 = hardware breakpoint, 2..4 = watchpoint, 5 = a type
\* the handlers do not know.  The coordinator's packets carry WpPktTypes.
BpTypes == 1 .. 5
WpPktTypes == {2, 5}
WpTypeOf(type) ==
    CASE type = 2 -> WP_TYPE_WRITE
      [] type = 3 -> WP_TYPE_READ
      [] type = 4 -> WP_TYPE_ACCESS
\* Watch length ("kind") the packets carry.
WatchKind == 4

handle_set_breakpoint(type, addr, kind, f) ==
    LET hb == set_hw_breakpoint(addr, f)
        wp == set_watchpoint(addr, kind, WpTypeOf(type), f)
    IN  /\ conn = "open"
        /\ CASE type = 1 ->
                  /\ hw_breakpoints' = hb[2]
                  /\ hw_breakpoint_used' = hb[3]
                  /\ tdr_shadow' = hb[4]
                  /\ last' = Last("Z", <<IF hb[1] >= 0 THEN <<"OK">> ELSE <<"E", 14>>>>,
                                  <<"write_pbr", "write_tdr">>,
                                  UsbError(f, IF \A i \in Slots : hw_breakpoint_used[i] = 1
                                              THEN {} ELSE {"pbr", "tdr"}))
                  /\ UNCHANGED watchpoints
             [] type \in 2 .. 4 ->
                  /\ watchpoints' = wp[2]
                  /\ tdr_shadow' = wp[3]
                  /\ last' = Last("Z", <<IF wp[1] = 0 THEN <<"OK">> ELSE <<"E", 14>>>>,
                                  <<"write_ablr", "write_abhr", "write_tdr">>,
                                  UsbError(f, IF watchpoints.active # 0 THEN {}
                                              ELSE {"ablr", "abhr", "tdr"}))
                  /\ UNCHANGED <<hw_breakpoints, hw_breakpoint_used>>
             [] OTHER ->
                  /\ last' = Last("Z", <<<<"E", 1>>>>, <<>>, FALSE)
                  /\ UNCHANGED <<hw_breakpoints, hw_breakpoint_used, watchpoints,
                                 tdr_shadow>>
        /\ UNCHANGED <<g_target_halted, g_step_count, g_cached_pc,
                       g_registers_initialized, conn, tgt_running, tgt_pc,
                       steps_since_reset>>

handle_remove_breakpoint(type, addr, kind, f) ==
    LET hb == clear_hw_breakpoint(addr)
        wp == clear_watchpoint(addr, kind, WpTypeOf(type))
    IN  /\ conn = "open"
        /\ CASE type = 1 ->
                  /\ hw_breakpoints' = hb[2]
                  /\ hw_breakpoint_used' = hb[3]
                  /\ tdr_shadow' = hb[4]
                  /\ last' = Last("z", <<<<"OK">>>>, <<"write_pbr", "write_tdr">>,
                                  hb[1] = 0 /\ f # "ok")
                  /\ UNCHANGED watchpoints
             [] type \in 2 .. 4 ->
                  /\ watchpoints' = wp[2]
                  /\ tdr_shadow' = wp[3]
                  /\ last' = Last("z", <<<<"OK">>>>,
                                  <<"write_ablr", "write_abhr", "write_tdr">>,
                                  wp[1] = 0 /\ f # "ok")
                  /\ UNCHANGED <<hw_breakpoints, hw_breakpoint_used>>
             [] OTHER ->
                  /\ last' = Last("z", <<<<"E", 1>>>>, <<>>, FALSE)
                  /\ UNCHANGED <<hw_breakpoints, hw_breakpoint_used, watchpoints,
                                 tdr_shadow>>
        /\ UNCHANGED <<g_target_halted, g_step_count, g_cached_pc,
                       g_registers_initialized, conn, tgt_running, tgt_pc,
                       steps_since_reset>>

PktSetBreakpoint ==
    \E type \in WpPktTypes, addr \in Addrs,
       f \in FailScenarios({"ablr", "tdr"}) :
        handle_set_breakpoint(type, addr, WatchKind, f)

PktRemoveBreakpoint ==
    \E type \in WpPktTypes, addr \in Addrs, f \in FailScenarios({}) :
        handle_remove_breakpoint(type, addr, WatchKind, f)

(***************************************************************************)
(* Connection: main's accept loop and handle_client's recv                 *)
(***************************************************************************)
\* recv returns <= 0: handle_client breaks out, main closes the socket.
ClientDisconnect ==
    /\ conn = "open"
    /\ conn' = "closed"
    /\ last' = Last("eof", <<>>, <<>>, FALSE)
    /\ UNCHANGED <<g_target_halted, g_step_count, g_cached_pc,
                   g_registers_initialized, hw_breakpoints, hw_breakpoint_used,
                   watchpoints, tdr_shadow, tgt_running, tgt_pc,
                   steps_since_reset>>

\* accept returns a client: handle_client starts; the globals keep their values.
ClientConnect ==
    /\ conn = "closed"
    /\ conn' = "open"
    /\ last' = Last("accept", <<>>, <<>>, FALSE)
    /\ UNCHANGED <<g_target_halted, g_step_count, g_cached_pc,
                   g_registers_initialized, hw_breakpoints, hw_breakpoint_used,
                   watchpoints, tdr_shadow, tgt_running, tgt_pc,
                   steps_since_reset>>

(***************************************************************************)
(* Specification of the debug coordinator                                  *)
(***************************************************************************)
InitCoord ==
    /\ g_target_halted = 1
    /\ g_step_count = 0
    /\ g_cached_pc = 0
    /\ g_registers_initialized = 0
    /\ hw_breakpoints = [i \in Slots |-> 0]
    /\ hw_breakpoint_used = [i \in Slots |-> 0]
    /\ watchpoints = NoWatchpoint
    /\ tdr_shadow = {}
    /\ conn = "closed"
    /\ last = Last(None, <<>>, <<>>, FALSE)
    /\ tgt_running = FALSE
    /\ tgt_pc = ResetVectorPc
    /\ steps_since_reset = 0

InitRx ==
    /\ rx_buffer = <<>>
    /\ buf_pos = 0
    /\ rx_sock = <<>>
    /\ rx_stream = <<>>
    /\ rx_base = 0
    /\ rx_last = <<>>
    /\ rx_oob = FALSE

\* The word size of the flash array and of the flashloader's data buffer.
WORD == 4
\* Flash size in words (0x10000 words = 0x40000 bytes in the program, scaled).
FlashWords == 2
FLASH_SIZE == WORD * FlashWords
\* Erase sector and flashloader data buffer (0x800 and 0x400 bytes in the
\* program), scaled to one word each.
FLASH_SECTOR_SIZE == WORD
FLASHLOADER_DATA_BUFFER_SIZE == WORD
FlashAddrs == 0 .. (FLASH_SIZE - 1)
Sectors == 0 .. ((FLASH_SIZE \div FLASH_SECTOR_SIZE) - 1)
ERASED == 255

\* flash_reset_state / the zero-initialised static flash_state.
FlashStateReset ==
    [initialized |-> 0, erased |-> 0, erase_start |-> 0, erase_end |-> 0,
     write_buffer |-> <<>>, write_addr |-> 0, write_len |-> 0,
     write_capacity |-> 0, erased_sectors |-> [s \in Sectors |-> 0],
     sstate_initialized |-> 0]

\* What a vFlash packet did: its reply and, for vFlashErase and vFlashWrite,
\* the address and length it named.
VfLastAt(pkt, reply, addr, len) ==
    [pkt |-> pkt, reply |-> reply, addr |-> addr, len |-> len]
VfLast(pkt, reply) == VfLastAt(pkt, reply, 0, 0)

InitFlash ==
    /\ flash_state = FlashStateReset
    \* an older image: every byte 0x00
    /\ flash = [a \in FlashAddrs |-> 0]
    /\ vf_last = VfLast(None, <<>>)
    /\ vf_writes = <<>>
    /\ vf_erased = {}
    /\ vf_count = 0
    /\ vf_ops = <<>>

(***************************************************************************)
(* Breakpoint resources: the debug module's write-only registers, the      *)
(* software breakpoint table and the target memory it patches              *)
(***************************************************************************)
\* Software breakpoint slots (32 in the program, scaled).
MAX_SW_BREAKPOINTS == 2
SwSlots == 0 .. (MAX_SW_BREAKPOINTS - 1)
\* The ColdFire HALT instruction, 0x4AC8.
COLDFIRE_HALT_OPCODE == 19144
\* The two bytes 0xFF, 0xFF that stand in for a failed read of addr + 2.
NEXT_BYTES_FALLBACK == 65535
\* Instruction addresses that Z0/Z1 packets name, and the 16-bit memory
\* cells around them (a 32-bit write at addr covers addr and addr + 2).
BpAddrs == {2 * a : a \in Addrs}
MemAddrs == {2 * a : a \in 0 .. (MaxAddr + 1)}
\* The program in target memory: a different instruction in every cell.
ProgramImage == [a \in MemAddrs |-> 1 + (a \div 2)]

BpLast(op, type, addr, f, reply, path, result) ==
    [op |-> op, type |-> type, addr |-> addr, f |-> f, reply |-> reply,
     path |-> path, result |-> result]

\* The zeroed statics, init_sw_breakpoints, and a debug module out of reset.
InitBp ==
    /\ tgt_pbr = [i \in Slots |-> 0]
    /\ tgt_tdr = {}
    /\ tgt_mem = ProgramImage
    /\ sw_breakpoints = [i \in SwSlots |-> [addr |-> 0, original_insn |-> 0, active |-> 0]]
    /\ bp_last = BpLast(None, 0, 0, "ok", <<>>, None, 0)
    /\ bp_count = 0
    /\ bp_faults = 0

InitFn == fn_last = [op |-> None]

\* g_cmd_buffer is zero-initialised at program start.
BUF_SIZE == 256
BufIdx == 0 .. BUF_SIZE - 1
InitPod ==
    /\ g_cmd_buffer = [i \in 1 .. BUF_SIZE |-> 0]
    /\ pod_last = [op |-> None]
    /\ pod_count = 0

Init == InitCoord /\ InitRx /\ InitFlash /\ InitBp /\ InitFn /\ InitPod

NextCoord ==
    \/ ClientConnect
    \/ ClientDisconnect
    \/ Interrupt
    \/ PktContinue
    \/ PktStep
    \/ PktHaltReason
    \/ PktKill
    \/ PktDetach
    \/ PktOther
    \/ PktReadRegister
    \/ PktWriteRegister
    \/ PktMonitor
    \/ PktSetBreakpoint
    \/ PktRemoveBreakpoint

Next == NextCoord /\ UNCHANGED <<rxVars, flashVars, bpVars, fnVars, podVars>>

Spec == Init /\ [][Next]_vars

(***************************************************************************)
(* Properties of the debug coordinator (checked under Spec)                *)
(***************************************************************************)
\* last.pkt names an RSP packet (not a connection event or the 0x03 byte).
IsPacket(pkt) == pkt \notin {None, "eof", "accept", "0x03"}
StopReplies == {"S05", "T05watch"}
\* a is logged, and b is logged later.
LoggedBefore(log, a, b) ==
    \E i, j \in 1 .. Len(log) : i < j /\ log[i] = a /\ log[j] = b

C4_InterruptHaltsTarget ==
    last.pkt = "0x03" => (g_target_halted = 1 /\ ~tgt_running)

\* C5: after 'k' or 'D' the session is closed: nothing further is processed
\* on this connection.
C5_KillDetachCloseSession ==
    [][last.pkt \in {"k", "D"} => (~IsPacket(last'.pkt) /\ last'.pkt # "0x03")]_vars

\* C6: a handler in which a USB call failed replies E05 and leaves the target
\* state marked Unknown (neither halted nor running).
C6_UsbErrorSurfaced ==
    (IsPacket(last.pkt) /\ last.usb_err) =>
        (last.replies = <<<<"E", 5>>>> /\ g_target_halted \notin {0, 1})

\* C7: the stop reply of a continue is T05watch with the tracked watchpoint
\* address when the shadow TDR has EAR1 and TRC_HALT set, and S05 otherwise.
WatchpointArmed == (TDR_EAR1 \subseteq tdr_shadow) /\ (TDR_TRC_HALT \subseteq tdr_shadow)
C7_WatchStopReply ==
    last.pkt = "c" =>
        last.replies = << IF WatchpointArmed THEN <<"T05watch", watchpoints.addr>>
                          ELSE <<"S05">> >>

ResetSequenceLogged(log) ==
    \E i \in 1 .. Len(log) - 3 :
        /\ log[i] = "enter_mode_F8" /\ log[i + 1] = "enter_mode_F0"
        /\ log[i + 2] = "enter_mode_F8"
        /\ \A j \in 1 .. i : log[j] # "go_step"
C9_ResetEveryTwoSteps ==
    /\ [](/\ steps_since_reset <= STEP_LIMIT
          /\ g_step_count = steps_since_reset
          /\ (last.pkt = "s" /\ last.reset_fired) => ResetSequenceLogged(last.log))
    /\ [][last'.pkt = "s" =>
            /\ last'.reset_fired = (g_step_count >= STEP_LIMIT)
            /\ last'.reset_fired => g_step_count' <= 1]_vars

\* The third step: it reset the mode and the counter, then stepped.
C9_Witness ==
    /\ last.pkt = "s"
    /\ last.reset_fired
    /\ g_step_count = 1
    /\ steps_since_reset = 1

\* C10: the PC the mode reset writes back is the PC the target had just
\* before the F8-F0-F8 sequence.
C10_ResetPreservesPc ==
    (last.pkt = "s" /\ last.reset_fired) =>
        last.reset_saved_pc = last.reset_actual_pc

(***************************************************************************)
(* SpecRx: the receive loop of handle_client, byte by byte                 *)
(***************************************************************************)
\* Bytes the client sends in the model.
CH_ETX == 3
CH_HASH == 35
CH_DOLLAR == 36
CH_PLUS == 43
CH_MINUS == 45
\* 51 is '3': a payload byte and a hex digit ("$3#33" is a valid packet).
RxAlphabet == {CH_ETX, CH_HASH, CH_DOLLAR, CH_PLUS, 51}
\* Bytes the client sends on one connection.
MaxStream == 5
\* sizeof(buffer) in handle_client (4096 in the program, scaled).
MAX_PACKET_SIZE == 6

RECURSIVE SumBytes(_)
SumBytes(data) ==
    IF data = <<>> THEN 0 ELSE data[1] + SumBytes(Tail(data))

\* calc_checksum: the uint8_t sum of the bytes.
calc_checksum(data) == SumBytes(data) % 256

hex_to_nibble(c) ==
    IF c >= 48 /\ c <= 57 THEN c - 48
    ELSE IF c >= 97 /\ c <= 102 THEN c - 97 + 10
    ELSE IF c >= 65 /\ c <= 70 THEN c - 65 + 10
    ELSE 0 - 1

\* (uint8_t)((hi << 4) | lo) for nibbles in -1 .. 15, two's complement.
RecvCksum(hi, lo) ==
    IF lo < 0 THEN 255
    ELSE (IF hi < 0 THEN 15 ELSE hi) * 16 + lo

\* buffer[i] for 0 <= i <= buf_pos: the received byte, or the '\0' that
\* handle_client stores at buffer[buf_pos].
BufferAt(buf, i) == IF i < Len(buf) THEN buf[i + 1] ELSE 0

\* The "process complete packets" loop: buf = buffer[0 .. buf_pos-1], ptr an
\* offset into it, base the stream offset of buffer[0], ev the sends and
\* dispatches so far.  Returns the final ptr and the events.
RECURSIVE ProcessPackets(_, _, _, _)
ProcessPackets(buf, ptr, base, ev) ==
    IF ptr >= Len(buf) THEN [ptr |-> ptr, ev |-> ev]
    ELSE
      LET ch == buf[ptr + 1]
          hashes == {i \in (ptr + 1) .. (Len(buf) - 1) : buf[i + 1] = CH_HASH}
          end == MinOf(hashes)
          cmd == SubSeq(buf, ptr + 2, end)
          recv_cksum == RecvCksum(hex_to_nibble(BufferAt(buf, end + 1)),
                                  hex_to_nibble(BufferAt(buf, end + 2)))
          acked == recv_cksum = calc_checksum(cmd)
      IN  IF ch = CH_ETX
          THEN ProcessPackets(buf, ptr + 1, base, ev \o <<<<"packet", "S02">>>>)
          ELSE IF ch = CH_PLUS \/ ch = CH_MINUS \/ ch # CH_DOLLAR
          THEN ProcessPackets(buf, ptr + 1, base, ev)
          ELSE IF hashes = {} \/ end + 2 > Len(buf)
          THEN [ptr |-> ptr, ev |-> ev]
          ELSE ProcessPackets(buf, end + 3, base,
                 ev \o (IF acked
                        THEN <<<<"+", cmd, base + end>>, <<"packet", "">>>>
                        ELSE <<<<"-", cmd, base + end>>>>))

\* The client writes one more byte to the connection.
ClientSend ==
    /\ conn = "open"
    /\ Len(rx_stream) < MaxStream
    /\ \E b \in RxAlphabet :
          /\ rx_sock' = Append(rx_sock, b)
          /\ rx_stream' = Append(rx_stream, b)
    /\ UNCHANGED <<rx_buffer, buf_pos, rx_base, rx_last, rx_oob>>
    /\ UNCHANGED coordVars

\* One iteration of handle_client's loop with data on the socket: recv of n
\* bytes, the packet loop, the memmove.  With buf_pos = -1 the first byte is
\* stored below the array: it is gone for the parser, or the process dies.
RecvData ==
    /\ conn = "open"
    /\ rx_sock # <<>>
    /\ MAX_PACKET_SIZE - buf_pos - 1 > 0
    /\ \E n \in 1 .. Len(rx_sock), survives \in BOOLEAN :
          LET m    == IF n <= MAX_PACKET_SIZE - buf_pos - 1 THEN n
                      ELSE MAX_PACKET_SIZE - buf_pos - 1
              got  == SubSeq(rx_sock, 1, m)
              buf  == IF buf_pos < 0 THEN Tail(got) ELSE rx_buffer \o got
              r    == ProcessPackets(buf, 0, rx_base, <<>>)
              remaining == Len(buf) - r.ptr
          IN  /\ buf_pos < 0 \/ survives
              /\ rx_sock' = SubSeq(rx_sock, m + 1, Len(rx_sock))
              /\ IF buf_pos < 0 /\ ~survives
                 THEN /\ conn' = "crashed"
                      /\ rx_last' = <<>>
                      /\ UNCHANGED <<rx_buffer, buf_pos, rx_base, g_target_halted>>
                 ELSE /\ rx_buffer' = IF remaining > 0
                                      THEN SubSeq(buf, r.ptr + 1, Len(buf)) ELSE <<>>
                      /\ buf_pos' = remaining
                      /\ rx_base' = rx_base + r.ptr
                      /\ rx_last' = r.ev
                      /\ g_target_halted' =
                            IF \E k \in 1 .. Len(r.ev) : r.ev[k] = <<"packet", "S02">>
                            THEN 1 ELSE g_target_halted
                      /\ UNCHANGED conn
              /\ rx_oob' = (rx_oob \/ buf_pos < 0)
    /\ rx_stream' = rx_stream
    /\ UNCHANGED <<g_step_count, g_cached_pc, g_registers_initialized,
                   hw_breakpoints, hw_breakpoint_used, watchpoints, tdr_shadow,
                   last, tgt_running, tgt_pc, steps_since_reset>>

\* recv returns 0: the client closed, or the buffer has no room left
\* (recv is asked for 0 bytes).  handle_client returns, main closes the socket.
RecvEof ==
    /\ conn = "open"
    /\ rx_sock = <<>> \/ MAX_PACKET_SIZE - buf_pos - 1 = 0
    /\ conn' = "closed"
    /\ UNCHANGED <<rxVars, g_target_halted, g_step_count, g_cached_pc,
                   g_registers_initialized, hw_breakpoints, hw_breakpoint_used,
                   watchpoints, tdr_shadow, last, tgt_running, tgt_pc,
                   steps_since_reset>>

\* accept: a new handle_client call starts with an empty buffer.
RxAccept ==
    /\ ClientConnect
    /\ rx_buffer' = <<>>
    /\ buf_pos' = 0
    /\ rx_sock' = <<>>
    /\ rx_stream' = <<>>
    /\ rx_base' = 0
    /\ rx_last' = <<>>
    /\ rx_oob' = FALSE

NextRx ==
    \/ RxAccept
    \/ ClientSend
    \/ RecvData
    \/ RecvEof

SpecRx == Init /\ [][NextRx /\ UNCHANGED <<flashVars, bpVars, fnVars, podVars>>]_vars

(***************************************************************************)
(* Properties of the receive loop (checked under SpecRx)                   *)
(***************************************************************************)
\* The checksum the two characters after '#' spell, or -1 if they are not
\* two hex digits.
SpelledCksum(c1, c2) ==
    IF hex_to_nibble(c1) < 0 \/ hex_to_nibble(c2) < 0 THEN 0 - 1
    ELSE hex_to_nibble(c1) * 16 + hex_to_nibble(c2)

\* C3: for every framed packet the server decided on, once the client has
\* sent both checksum characters: '+' was sent and the payload dispatched
\* (the reply after the ack) exactly when the characters spell the mod-256
\* sum of the payload; otherwise '-' was sent and nothing dispatched.
C3_AckIffChecksumMatches ==
    \A k \in 1 .. Len(rx_last) :
        LET d == rx_last[k]
        IN  (d[1] \in {"+", "-"} /\ Len(rx_stream) >= d[3] + 3) =>
              LET good == SpelledCksum(rx_stream[d[3] + 2], rx_stream[d[3] + 3])
                              = calc_checksum(d[2])
              IN  /\ (d[1] = "+") = good
                  /\ d[1] = "+" => (k < Len(rx_last) /\ rx_last[k + 1][1] = "packet")

(***************************************************************************)
(* SpecFlash: the vFlash session, the host flash engine, the flashloader   *)
(***************************************************************************)
\* vFlash packets handled in a run.
MaxFlashPackets == 4
\* Bytes of a vFlashWrite payload.
PayloadBytes == {17}
\* Payload lengths of the vFlashWrite packets.
PayloadLens == {1, WORD, WORD + 1}

\* uint32_t arithmetic wraps; the width is scaled to 16 bits (any modulus
\* above twice the flash size wraps the same way).
UintModulus == 2 ^ 16
\* The value of a uint32_t expression.
U32(x) == x % UintModulus

\* b XOR 0x20 on a byte.
Xor20(b) == IF (b \div 32) % 2 = 1 THEN b - 32 ELSE b + 32

\* An unescape that copies the escaped byte without the XOR.
RECURSIVE rsp_unescape_binary_NoXor(_)
rsp_unescape_binary_NoXor(data) ==
    IF data = <<>> THEN <<>>
    ELSE IF data[1] = 125 /\ Len(data) > 1
    THEN <<data[2]>> \o rsp_unescape_binary_NoXor(SubSeq(data, 3, Len(data)))
    ELSE <<data[1]>> \o rsp_unescape_binary_NoXor(Tail(data))

\* rsp_unescape_binary: 0x7d, x becomes x XOR 0x20.
RECURSIVE rsp_unescape_binary(_)
rsp_unescape_binary(data) ==
    IF data = <<>> THEN <<>>
    ELSE IF data[1] = 125 /\ Len(data) > 1
    THEN <<Xor20(data[2])>> \o rsp_unescape_binary(SubSeq(data, 3, Len(data)))
    ELSE <<data[1]>> \o rsp_unescape_binary(Tail(data))

\* Programming a flash byte can only clear bits: old AND new, for bytes of
\* which at most one is neither 0x00 nor 0xFF.
ProgramByte(old, new) ==
    IF old = ERASED THEN new
    ELSE IF new = ERASED THEN old
    ELSE IF old = new THEN old
    ELSE 0

\* flashloader.c flash_program: programs length / 4 longwords of data_buffer.
flash_program(fl, addr, length, data_buffer) ==
    LET num_words == length \div WORD
    IN  [a \in FlashAddrs |->
            IF a >= addr /\ a < addr + num_words * WORD
            THEN ProgramByte(fl[a], data_buffer[a - addr + 1])
            ELSE fl[a]]

\* simple_flash_program: copies the data to the loader's buffer in whole
\* words, the last one padded with 0xFF, then runs PROGRAM with the length.
simple_flash_program(fl, flash_addr, data, length) ==
    LET num_words == (length + (WORD - 1)) \div WORD
        data_buffer == [i \in 1 .. (num_words * WORD) |->
                            IF i <= length THEN data[i] ELSE ERASED]
    IN  flash_program(fl, flash_addr, length, data_buffer)

\* gpl_flash_program: programs in chunks of the data buffer size.
RECURSIVE gpl_flash_program(_, _, _, _, _)
gpl_flash_program(fl, addr, data, length, offset) ==
    IF offset >= length THEN fl
    ELSE LET rest == length - offset
             chunk_size == IF rest > FLASHLOADER_DATA_BUFFER_SIZE
                           THEN FLASHLOADER_DATA_BUFFER_SIZE ELSE rest
         IN  gpl_flash_program(
                 simple_flash_program(fl, addr + offset,
                     SubSeq(data, offset + 1, offset + chunk_size), chunk_size),
                 addr, data, length, offset + chunk_size)

\* gpl_flash_erase_range: the sectors it erases (those not yet marked).
EraseRangeSectors(st, start_addr, length) ==
    {sn \in Sectors :
        /\ sn >= start_addr \div FLASH_SECTOR_SIZE
        /\ sn < U32(start_addr + length + FLASH_SECTOR_SIZE - 1) \div FLASH_SECTOR_SIZE
        /\ st.erased_sectors[sn] = 0}

\* A loader operation as simple_flash_run_op receives it.
LoaderOp(operation, flash_addr, length) == <<operation, flash_addr, length>>
\* target_init_full, recorded in the same history.
TargetInitFull == <<"target_init_full", 0, 0>>

RECURSIVE SeqOfSet(_)
SeqOfSet(S) ==
    IF S = {} THEN <<>>
    ELSE LET m == CHOOSE x \in S : \A y \in S : x <= y
         IN  <<m>> \o SeqOfSet(S \ {m})

\* gpl_flash_init runs op 0 when flash_init_loader finds the loader not
\* initialized.
InitLoaderOps(st) ==
    IF st.initialized = 1 THEN <<>> ELSE <<LoaderOp("init", 0, 0)>>

\* simple_flash_erase_sector / simple_flash_program run op 0 first when the
\* simple_flash_state is not marked initialized.
ModuleInitOps(st) ==
    IF st.sstate_initialized = 1 THEN <<>> ELSE <<LoaderOp("init", 0, 0)>>

\* The operations gpl_flash_erase_range runs for these sectors, in order.
EraseOps(st, sectors) ==
    LET ss == SeqOfSet(sectors)
    IN  IF sectors = {} THEN <<>>
        ELSE ModuleInitOps(st) \o
             [k \in 1 .. Len(ss) |-> LoaderOp("erase", ss[k] * FLASH_SECTOR_SIZE, 0)]

\* The operations gpl_flash_program runs: one PROGRAM per chunk.
RECURSIVE ProgramChunkOps(_, _, _)
ProgramChunkOps(addr, length, offset) ==
    IF offset >= length THEN <<>>
    ELSE LET rest == length - offset
             chunk_size == IF rest > FLASHLOADER_DATA_BUFFER_SIZE
                           THEN FLASHLOADER_DATA_BUFFER_SIZE ELSE rest
         IN  <<LoaderOp("program", addr + offset, chunk_size)>> \o
             ProgramChunkOps(addr, length, offset + chunk_size)

ProgramOps(st, addr, length) ==
    IF length = 0 THEN <<>>
    ELSE ModuleInitOps(st) \o ProgramChunkOps(addr, length, 0)

\* flash_sector_erase on each of the sectors.
flash_sector_erase(fl, sectors) ==
    [a \in FlashAddrs |->
        IF (a \div FLASH_SECTOR_SIZE) \in sectors THEN ERASED ELSE fl[a]]

\* flash_init_loader: gpl_flash_init zeroes the loader state.
flash_init_loader(st) ==
    IF st.initialized = 1 THEN st
    ELSE [st EXCEPT !.initialized = 1, !.erased_sectors = [s \in Sectors |-> 0],
                    !.sstate_initialized = 0]

\* The history of the session the next packet belongs to.
SessionWrites == IF vf_last.pkt = "vFlashDone" THEN <<>> ELSE vf_writes
SessionErased == IF vf_last.pkt = "vFlashDone" THEN {} ELSE vf_erased
SessionOps == IF vf_last.pkt = "vFlashDone" THEN <<>> ELSE vf_ops

VFlashErase(addr, length, usb_ok) ==
    LET st1  == flash_init_loader(flash_state)
        secs == EraseRangeSectors(st1, addr, length)
        st2  == [st1 EXCEPT
                   !.erased_sectors = [s \in Sectors |->
                        IF s \in secs THEN 1 ELSE st1.erased_sectors[s]],
                   !.sstate_initialized = IF secs = {} THEN st1.sstate_initialized
                                          ELSE 1,
                   !.erase_start = IF st1.erased = 0 \/ addr < st1.erase_start
                                   THEN addr ELSE st1.erase_start,
                   !.erase_end = IF st1.erased = 0 \/ U32(addr + length) > st1.erase_end
                                 THEN U32(addr + length) ELSE st1.erase_end,
                   !.erased = 1]
    IN  /\ vf_writes' = SessionWrites
        /\ IF addr >= FLASH_SIZE \/ U32(addr + length) > FLASH_SIZE
           THEN /\ vf_last' = VfLastAt("vFlashErase", <<"E", 14>>, addr, length)
                /\ vf_erased' = SessionErased
                /\ vf_ops' = SessionOps
                /\ UNCHANGED <<flash_state, flash>>
           ELSE IF ~usb_ok
           THEN /\ vf_last' = VfLastAt("vFlashErase", <<"E", 16>>, addr, length)
                /\ vf_erased' = SessionErased
                /\ vf_ops' = SessionOps
                /\ UNCHANGED <<flash_state, flash>>
           ELSE /\ vf_last' = VfLastAt("vFlashErase", <<"OK">>, addr, length)
                /\ flash_state' = st2
                /\ flash' = flash_sector_erase(flash, secs)
                /\ vf_erased' = SessionErased \cup
                      {a \in FlashAddrs : (a \div FLASH_SECTOR_SIZE) \in secs}
                /\ vf_ops' = SessionOps \o InitLoaderOps(flash_state)
                                        \o EraseOps(st1, secs)
        /\ UNCHANGED <<tgt_running, tgt_pc>>

\* An offset computed without the unsigned wrap.
WriteOffset_Signed(addr, write_addr) == addr - write_addr

\* A distance to the base address in place of the uint32_t difference.
WriteOffset_Abs(addr, write_addr) ==
    IF addr >= write_addr THEN addr - write_addr ELSE write_addr - addr

\* "uint32_t offset = addr - flash_state.write_addr".
WriteOffset(addr, write_addr) == U32(addr - write_addr)

VFlashWrite(addr, bin_data) ==
    LET unescaped  == rsp_unescape_binary(bin_data)
        actual_len == Len(unescaped)
        st1 == IF flash_state.write_buffer = <<>>
               THEN [flash_state EXCEPT
                        !.write_capacity = FLASH_SIZE,
                        !.write_buffer = [i \in 1 .. FLASH_SIZE |-> ERASED],
                        !.write_addr = addr,
                        !.write_len = 0]
               ELSE flash_state
        offset == WriteOffset(addr, st1.write_addr)
        st2 == [st1 EXCEPT
                  !.write_buffer = [i \in 1 .. FLASH_SIZE |->
                        IF i > offset /\ i <= offset + actual_len
                        THEN unescaped[i - offset] ELSE st1.write_buffer[i]],
                  !.write_len = IF offset + actual_len > st1.write_len
                                THEN offset + actual_len ELSE st1.write_len]
    IN  /\ vf_erased' = SessionErased
        /\ vf_ops' = SessionOps
        /\ IF Len(bin_data) = 0
           THEN /\ vf_last' = VfLastAt("vFlashWrite", <<"OK">>, addr, 0)
                /\ vf_writes' = SessionWrites
                /\ UNCHANGED flash_state
           ELSE IF addr >= FLASH_SIZE \/ addr + actual_len > FLASH_SIZE
           THEN /\ vf_last' = VfLastAt("vFlashWrite", <<"E", 14>>, addr, actual_len)
                /\ vf_writes' = SessionWrites
                /\ UNCHANGED flash_state
           ELSE IF offset + actual_len > st1.write_capacity
           THEN /\ vf_last' = VfLastAt("vFlashWrite", <<"E", 14>>, addr, actual_len)
                /\ vf_writes' = Append(SessionWrites, <<addr, unescaped>>)
                /\ flash_state' = st1
           ELSE /\ vf_last' = VfLastAt("vFlashWrite", <<"OK">>, addr, actual_len)
                /\ vf_writes' = Append(SessionWrites, <<addr, unescaped>>)
                /\ flash_state' = st2
        /\ UNCHANGED <<flash, tgt_running, tgt_pc>>

VFlashDone(usb_ok) ==
    LET pending == flash_state.write_buffer # <<>> /\ flash_state.write_len > 0
        st1     == flash_init_loader(flash_state)
    IN  /\ vf_writes' = SessionWrites
        /\ vf_erased' = SessionErased
        /\ flash_state' = FlashStateReset
        /\ IF pending /\ ~usb_ok
           THEN /\ vf_last' = VfLast("vFlashDone", <<"E", 16>>)
                /\ vf_ops' = SessionOps
                /\ UNCHANGED <<flash, tgt_running, tgt_pc>>
           ELSE /\ vf_last' = VfLast("vFlashDone", <<"OK">>)
                /\ flash' = IF pending
                            THEN gpl_flash_program(flash, flash_state.write_addr,
                                     flash_state.write_buffer,
                                     flash_state.write_len, 0)
                            ELSE flash
                /\ vf_ops' = SessionOps \o
                       (IF pending
                        THEN InitLoaderOps(flash_state) \o
                             ProgramOps(st1, flash_state.write_addr,
                                        flash_state.write_len)
                        ELSE <<>>) \o <<TargetInitFull>>
                \* target_init_full: the CPU is reset and halted
                /\ tgt_running' = IF usb_ok THEN FALSE ELSE tgt_running
                /\ tgt_pc' = IF usb_ok THEN ResetVectorPc ELSE tgt_pc

\* vFlashErase:addr,length as strtoul parses them into uint32_t: aligned and
\* unaligned addresses, the address just past the flash; an empty range,
\* one sector, the whole flash and the largest length.
EraseAddrs == {0, 2, WORD, FLASH_SIZE}
EraseLens == {0, WORD, FLASH_SIZE, UintModulus - 1}

PktVFlash ==
    /\ conn = "open"
    /\ vf_count < MaxFlashPackets
    /\ vf_count' = vf_count + 1
    /\ \/ \E addr \in EraseAddrs, length \in EraseLens, usb_ok \in BOOLEAN :
             VFlashErase(addr, length, usb_ok)
       \/ \E addr \in {0, WORD}, len \in {0} \cup PayloadLens, b \in PayloadBytes :
             VFlashWrite(addr, [i \in 1 .. len |-> b])
       \/ \E usb_ok \in BOOLEAN : VFlashDone(usb_ok)
    /\ UNCHANGED <<g_target_halted, g_step_count, g_cached_pc,
                   g_registers_initialized, hw_breakpoints, hw_breakpoint_used,
                   watchpoints, tdr_shadow, conn, last, steps_since_reset>>

\* accept: a new connection; flash_state is a global and keeps its value.
FlashAccept ==
    /\ ClientConnect
    /\ UNCHANGED flashVars

NextFlash ==
    \/ FlashAccept
    \/ PktVFlash

SpecFlash == Init /\ [][NextFlash /\ UNCHANGED <<rxVars, bpVars, fnVars, podVars>>]_vars

(***************************************************************************)
(* Properties of the vFlash session (checked under SpecFlash)              *)
(***************************************************************************)
WriteLo == MinOf({vf_writes[k][1] : k \in 1 .. Len(vf_writes)})
MaxOf(S) == CHOOSE x \in S : \A y \in S : x >= y
WriteHi == MaxOf({vf_writes[k][1] + Len(vf_writes[k][2]) : k \in 1 .. Len(vf_writes)})
\* The writes of the session that cover address a, by packet number.
Covering(a) ==
    {k \in 1 .. Len(vf_writes) :
        a >= vf_writes[k][1] /\ a < vf_writes[k][1] + Len(vf_writes[k][2])}
\* 0xFF overlaid with every payload, later packets over earlier ones.
ExpectedByte(a) ==
    IF Covering(a) = {} THEN ERASED
    ELSE LET k == MaxOf(Covering(a)) IN vf_writes[k][2][a - vf_writes[k][1] + 1]

\* C1: after a vFlashDone that reported OK, for a session whose writes all
\* went to erased flash, the flash over [min_addr, max_addr) is 0xFF
\* overlaid with every vFlashWrite payload of the session.
C1_FlashImageIsOverlay ==
    (/\ vf_last = VfLast("vFlashDone", <<"OK">>)
     /\ vf_writes # <<>>
     /\ \A a \in WriteLo .. (WriteHi - 1) : a \in vf_erased)
    => \A a \in WriteLo .. (WriteHi - 1) : flash[a] = ExpectedByte(a)

(***************************************************************************)
(* Further properties of the vFlash session (checked under SpecFlash)      *)
(***************************************************************************)
\* The step handles one vFlash packet.
VfPacketStep == vf_count' # vf_count
\* The loader operations the step ran.
VfNewOps == SubSeq(vf_ops', Len(SessionOps) + 1, Len(vf_ops'))
OpsNamed(ops, name) == {k \in 1 .. Len(ops) : ops[k][1] = name}

C16_InitOncePerSession ==
    /\ Cardinality(OpsNamed(vf_ops, "init")) <= 1
    /\ (OpsNamed(vf_ops, "erase") \cup OpsNamed(vf_ops, "program")) # {}
          => Cardinality(OpsNamed(vf_ops, "init")) = 1

\* C17: after every vFlashDone, whatever it replied, the staged buffer is
\* freed, base address and length are cleared, and target_init_full has run
\* as the last thing the handler did.
C17_DoneResetsAndReinitializes ==
    vf_last.pkt = "vFlashDone" =>
        /\ flash_state.write_buffer = <<>>
        /\ flash_state.write_addr = 0
        /\ flash_state.write_len = 0
        /\ vf_ops # <<>>
        /\ vf_ops[Len(vf_ops)] = <<"target_init_full", 0, 0>>

\* C18: a vFlashErase whose range [addr, addr + len) is not contained in
\* the flash is answered E0E and erases no sector (a request that fails
\* with E10 because the loader could not be started is left aside).
C18_EraseBoundsChecked ==
    [][ (VfPacketStep /\ vf_last'.pkt = "vFlashErase"
         /\ vf_last'.reply # <<"E", 16>>
         /\ vf_last'.len > 0 /\ vf_last'.addr + vf_last'.len > FLASH_SIZE) =>
          /\ vf_last'.reply = <<"E", 14>>
          /\ flash' = flash
          /\ OpsNamed(VfNewOps, "erase") = {}
      ]_vars

\* C19: an accepted erase of [addr, addr + len) erases exactly the sectors
\* that overlap the range and were not yet marked erased in this cycle,
\* marks them, and no sector is erased twice in one cycle.
C19_EraseRangeExact ==
    [][ (VfPacketStep /\ vf_last'.pkt = "vFlashErase" /\ vf_last'.reply = <<"OK">>) =>
          LET a == vf_last'.addr
              n == vf_last'.len
              marked(sn) == flash_state.initialized = 1
                            /\ flash_state.erased_sectors[sn] = 1
              overlap == {sn \in Sectors : n > 0 /\ sn * FLASH_SECTOR_SIZE < a + n
                                           /\ a < (sn + 1) * FLASH_SECTOR_SIZE}
              expected == {sn \in overlap : ~marked(sn)}
              erased_now == {VfNewOps[k][2] \div FLASH_SECTOR_SIZE :
                                k \in OpsNamed(VfNewOps, "erase")}
              erase_ops == OpsNamed(vf_ops', "erase")
          IN  /\ erased_now = expected
              /\ \A sn \in Sectors :
                    flash_state'.erased_sectors[sn] = 1 <=> (marked(sn) \/ sn \in expected)
              /\ \A x \in FlashAddrs :
                    flash'[x] = IF (x \div FLASH_SECTOR_SIZE) \in expected THEN ERASED ELSE flash[x]
              /\ \A j, k \in erase_ops : vf_ops'[j][2] = vf_ops'[k][2] => j = k
      ]_vars

\* C20: a vFlashDone that programs the staged data runs one PROGRAM
\* operation per chunk, the chunks at most one data buffer long, consecutive
\* and covering exactly [addr, addr + len), and every staged byte, those of
\* a partial final word included, is programmed to flash.
C20_ProgramChunksCoverData ==
    [][ (VfPacketStep /\ vf_last'.pkt = "vFlashDone" /\ vf_last'.reply = <<"OK">>
         /\ flash_state.write_buffer # <<>> /\ flash_state.write_len > 0) =>
          LET a == flash_state.write_addr
              n == flash_state.write_len
              progs == SelectSeq(VfNewOps, LAMBDA op : op[1] = "program")
          IN  /\ progs # <<>>
              /\ progs[1][2] = a
              /\ progs[Len(progs)][2] + progs[Len(progs)][3] = a + n
              /\ \A k \in 1 .. Len(progs) :
                    /\ progs[k][3] >= 1 /\ progs[k][3] <= FLASHLOADER_DATA_BUFFER_SIZE
                    /\ k < Len(progs) => progs[k + 1][2] = progs[k][2] + progs[k][3]
              /\ \A x \in a .. (a + n - 1) :
                    flash'[x] = ProgramByte(flash[x], flash_state.write_buffer[x - a + 1])
      ]_vars

(***************************************************************************)
(* SpecBp: the Z/z handlers with the registers and memory they write       *)
(***************************************************************************)
\* write_pbr: the PBR file after the call (unchanged when the transfer fails).
write_pbr(pbr, index, addr, failed) ==
    IF index < 0 \/ index > 3 \/ failed THEN pbr ELSE [pbr EXCEPT ![index] = addr]

\* write_tdr: the TDR after the call.
write_tdr(tdr, value, failed) == IF failed THEN tdr ELSE value

\* The registers after set_hw_breakpoint(addr): <<tgt_pbr', tgt_tdr'>>.
SetHwBreakpointRegs(addr, f) ==
    LET free == {i \in Slots : hw_breakpoint_used[i] = 0}
        slot == IF free = {} THEN NoSlot ELSE MinOf(free)
        hb   == set_hw_breakpoint(addr, f)
    IN  IF slot = NoSlot THEN <<tgt_pbr, tgt_tdr>>
        ELSE IF Fails(f, "pbr") THEN <<tgt_pbr, tgt_tdr>>
        ELSE <<write_pbr(tgt_pbr, slot, addr, FALSE),
               write_tdr(tgt_tdr, hb[4], Fails(f, "tdr"))>>

\* The registers after clear_hw_breakpoint(addr): <<tgt_pbr', tgt_tdr'>>.
ClearHwBreakpointRegs(addr, f) ==
    LET hit  == {i \in Slots : hw_breakpoint_used[i] = 1 /\ hw_breakpoints[i] = addr}
        slot == IF hit = {} THEN NoSlot ELSE MinOf(hit)
        hb   == clear_hw_breakpoint(addr)
    IN  IF slot = NoSlot THEN <<tgt_pbr, tgt_tdr>>
        ELSE <<write_pbr(tgt_pbr, slot, 0, Fails(f, "pbr")),
               write_tdr(tgt_tdr, hb[4], Fails(f, "tdr"))>>

\* The TDR after set_watchpoint / clear_watchpoint.
SetWatchpointTdr(addr, length, type, f) ==
    LET wp == set_watchpoint(addr, length, type, f)
    IN  IF watchpoints.active # 0 \/ Fails(f, "ablr") \/ Fails(f, "abhr")
        THEN tgt_tdr
        ELSE write_tdr(tgt_tdr, wp[3], Fails(f, "tdr"))

ClearWatchpointTdr(addr, length, type, f) ==
    LET wp == clear_watchpoint(addr, length, type)
    IN  IF wp[1] # 0 THEN tgt_tdr
        ELSE write_tdr(tgt_tdr, wp[3], Fails(f, "tdr"))

\* set_sw_breakpoint: <<result, sw_breakpoints', tgt_mem'>>
set_sw_breakpoint(addr, f) ==
    LET free == {i \in SwSlots : sw_breakpoints[i].active = 0}
        slot == IF free = {} THEN NoSlot ELSE MinOf(free)
        original == tgt_mem[addr]
        next_bytes == IF Fails(f, "read_next") THEN NEXT_BYTES_FALLBACK
                      ELSE tgt_mem[addr + 2]
    IN  IF slot = NoSlot \/ Fails(f, "read_insn") \/ Fails(f, "write_mem")
        THEN <<NoSlot, sw_breakpoints, tgt_mem>>
        ELSE <<0,
               [sw_breakpoints EXCEPT ![slot] =
                    [addr |-> addr, original_insn |-> original, active |-> 1]],
               [tgt_mem EXCEPT ![addr] = COLDFIRE_HALT_OPCODE,
                               ![addr + 2] = next_bytes]>>

\* clear_sw_breakpoint: <<result, sw_breakpoints', tgt_mem'>>
clear_sw_breakpoint(addr, f) ==
    LET hit  == {i \in SwSlots : sw_breakpoints[i].active = 1
                                 /\ sw_breakpoints[i].addr = addr}
        slot == IF hit = {} THEN NoSlot ELSE MinOf(hit)
        next_bytes == IF Fails(f, "read_next") THEN NEXT_BYTES_FALLBACK
                      ELSE tgt_mem[addr + 2]
    IN  IF slot = NoSlot \/ Fails(f, "write_mem")
        THEN <<NoSlot, sw_breakpoints, tgt_mem>>
        ELSE <<0,
               [sw_breakpoints EXCEPT ![slot].active = 0],
               [tgt_mem EXCEPT ![addr] = sw_breakpoints[slot].original_insn,
                               ![addr + 2] = next_bytes]>>

BpUnchangedCoord ==
    UNCHANGED <<g_target_halted, g_step_count, g_cached_pc, g_registers_initialized,
                conn, last, tgt_running, tgt_pc, steps_since_reset>>

\* handle_set_breakpoint with every resource it touches.
BpInsert(type, addr, kind, f) ==
    LET hb   == set_hw_breakpoint(addr, f)
        regs == SetHwBreakpointRegs(addr, f)
        sw   == set_sw_breakpoint(addr, f)
        wp   == set_watchpoint(addr, kind, WpTypeOf(type), f)
    IN  /\ conn = "open"
        /\ CASE type \in {0, 1} /\ hb[1] >= 0 ->
                  /\ hw_breakpoints' = hb[2]
                  /\ hw_breakpoint_used' = hb[3]
                  /\ tdr_shadow' = hb[4]
                  /\ tgt_pbr' = regs[1]
                  /\ tgt_tdr' = regs[2]
                  /\ bp_last' = BpLast("Z", type, addr, f, <<"OK">>, "hw", hb[1])
                  /\ UNCHANGED <<watchpoints, sw_breakpoints, tgt_mem>>
             [] type = 0 /\ hb[1] < 0 ->
                  /\ tdr_shadow' = hb[4]
                  /\ tgt_pbr' = regs[1]
                  /\ tgt_tdr' = regs[2]
                  /\ sw_breakpoints' = sw[2]
                  /\ tgt_mem' = sw[3]
                  /\ bp_last' = BpLast("Z", type, addr, f,
                                       IF sw[1] = 0 THEN <<"OK">> ELSE <<"E", 14>>,
                                       "sw", sw[1])
                  /\ UNCHANGED <<hw_breakpoints, hw_breakpoint_used, watchpoints>>
             [] type = 1 /\ hb[1] < 0 ->
                  /\ tdr_shadow' = hb[4]
                  /\ tgt_pbr' = regs[1]
                  /\ tgt_tdr' = regs[2]
                  /\ bp_last' = BpLast("Z", type, addr, f, <<"E", 14>>, "hw", hb[1])
                  /\ UNCHANGED <<hw_breakpoints, hw_breakpoint_used, watchpoints,
                                 sw_breakpoints, tgt_mem>>
             [] type \in 2 .. 4 ->
                  /\ watchpoints' = wp[2]
                  /\ tdr_shadow' = wp[3]
                  /\ tgt_tdr' = SetWatchpointTdr(addr, kind, WpTypeOf(type), f)
                  /\ bp_last' = BpLast("Z", type, addr, f,
                                       IF wp[1] = 0 THEN <<"OK">> ELSE <<"E", 14>>,
                                       "wp", wp[1])
                  /\ UNCHANGED <<hw_breakpoints, hw_breakpoint_used, tgt_pbr,
                                 sw_breakpoints, tgt_mem>>
             [] OTHER ->
                  /\ bp_last' = BpLast("Z", type, addr, f, <<"E", 1>>, None, NoSlot)
                  /\ UNCHANGED <<hw_breakpoints, hw_breakpoint_used, watchpoints,
                                 tdr_shadow, tgt_pbr, tgt_tdr, sw_breakpoints,
                                 tgt_mem>>
        /\ BpUnchangedCoord
        /\ UNCHANGED <<rxVars, flashVars, fnVars, podVars>>

\* handle_remove_breakpoint with every resource it touches.
BpRemove(type, addr, kind, f) ==
    LET hb   == clear_hw_breakpoint(addr)
        regs == ClearHwBreakpointRegs(addr, f)
        sw   == clear_sw_breakpoint(addr, f)
        wp   == clear_watchpoint(addr, kind, WpTypeOf(type))
    IN  /\ conn = "open"
        /\ CASE type \in {0, 1} /\ hb[1] = 0 ->
                  /\ hw_breakpoints' = hb[2]
                  /\ hw_breakpoint_used' = hb[3]
                  /\ tdr_shadow' = hb[4]
                  /\ tgt_pbr' = regs[1]
                  /\ tgt_tdr' = regs[2]
                  /\ bp_last' = BpLast("z", type, addr, f, <<"OK">>, "hw", 0)
                  /\ UNCHANGED <<watchpoints, sw_breakpoints, tgt_mem>>
             [] type = 0 /\ hb[1] # 0 ->
                  /\ sw_breakpoints' = sw[2]
                  /\ tgt_mem' = sw[3]
                  /\ bp_last' = BpLast("z", type, addr, f, <<"OK">>, "sw", sw[1])
                  /\ UNCHANGED <<hw_breakpoints, hw_breakpoint_used, watchpoints,
                                 tdr_shadow, tgt_pbr, tgt_tdr>>
             [] type = 1 /\ hb[1] # 0 ->
                  /\ bp_last' = BpLast("z", type, addr, f, <<"OK">>, "hw", NoSlot)
                  /\ UNCHANGED <<hw_breakpoints, hw_breakpoint_used, watchpoints,
                                 tdr_shadow, tgt_pbr, tgt_tdr, sw_breakpoints,
                                 tgt_mem>>
             [] type \in 2 .. 4 ->
                  /\ watchpoints' = wp[2]
                  /\ tdr_shadow' = wp[3]
                  /\ tgt_tdr' = ClearWatchpointTdr(addr, kind, WpTypeOf(type), f)
                  /\ bp_last' = BpLast("z", type, addr, f, <<"OK">>, "wp", wp[1])
                  /\ UNCHANGED <<hw_breakpoints, hw_breakpoint_used, tgt_pbr,
                                 sw_breakpoints, tgt_mem>>
             [] OTHER ->
                  /\ bp_last' = BpLast("z", type, addr, f, <<"E", 1>>, None, NoSlot)
                  /\ UNCHANGED <<hw_breakpoints, hw_breakpoint_used, watchpoints,
                                 tdr_shadow, tgt_pbr, tgt_tdr, sw_breakpoints,
                                 tgt_mem>>
        /\ BpUnchangedCoord
        /\ UNCHANGED <<rxVars, flashVars, fnVars, podVars>>

\* Z/z packets handled in one run of the model.
MaxBpPackets == 5
\* Packets of a run during whose handling a USB transfer fails.
MaxBpFaults == 1
\* Z/z packet types the client sends: software, hardware, write watchpoint
\* and one the handlers do not know.
BpPktTypes == {0, 1, 2, 5}
\* USB transfers that can fail in the handler of a packet of this type: a
\* transient error hits one call site of the code the handler runs.
BpInsertFails(type) ==
    CASE type = 0 -> {"ok", "pbr", "tdr", "read_next"}
      [] type = 1 -> {"ok", "pbr", "tdr"}
      [] type = 2 -> {"ok", "tdr"}
      [] OTHER    -> {"ok"}
BpRemoveFails(type) ==
    CASE type = 0 -> {"ok", "read_next"}
      [] type = 1 -> {"ok", "pbr"}
      [] OTHER    -> {"ok"}

\* A transfer fails in the handling of at most MaxBpFaults packets.
BpFault(f) ==
    /\ f # "ok" => bp_faults < MaxBpFaults
    /\ bp_faults' = IF f # "ok" THEN bp_faults + 1 ELSE bp_faults

BpPktInsert ==
    /\ bp_count < MaxBpPackets
    /\ bp_count' = bp_count + 1
    /\ \E type \in BpPktTypes, addr \in BpAddrs :
         \E f \in BpInsertFails(type) :
            BpFault(f) /\ BpInsert(type, addr, WatchKind, f)

BpPktRemove ==
    /\ bp_count < MaxBpPackets
    /\ bp_count' = bp_count + 1
    /\ \E type \in BpPktTypes, addr \in BpAddrs :
         \E f \in BpRemoveFails(type) :
            BpFault(f) /\ BpRemove(type, addr, WatchKind, f)

BpAccept == ClientConnect /\ UNCHANGED <<rxVars, flashVars, bpVars, fnVars, podVars>>

NextBp ==
    \/ BpAccept
    \/ BpPktInsert
    \/ BpPktRemove

SpecBp == Init /\ [][NextBp]_vars

(***************************************************************************)
(* Properties of the breakpoint handlers (checked under SpecBp)            *)
(***************************************************************************)
\* The step handles one Z/z packet.
BpPacketStep == bp_count' # bp_count

\* C11: a hardware breakpoint request at addr with a free slot (and no USB
\* failure) takes a free slot n, writes addr to PBRn, ORs
\* TRC_HALT | EBL1 | EPC1 | (1 << (24 + n)) into tdr_shadow and writes the
\* resulting shadow to TDR; a Z1 request with no free slot is answered E0E
\* and changes nothing.
C11_SetHwBreakpoint ==
    [][ (BpPacketStep /\ bp_last'.op = "Z" /\ bp_last'.type \in {0, 1}) =>
          LET free == {i \in Slots : hw_breakpoint_used[i] = 0}
              addr == bp_last'.addr
          IN  /\ (free = {} /\ bp_last'.type = 1) =>
                    /\ bp_last'.reply = <<"E", 14>>
                    /\ UNCHANGED <<hw_breakpoints, hw_breakpoint_used, tdr_shadow,
                                   tgt_pbr, tgt_tdr, watchpoints, sw_breakpoints,
                                   tgt_mem>>
              /\ (free # {} /\ bp_last'.f = "ok") =>
                    \E n \in free :
                        /\ bp_last'.reply = <<"OK">>
                        /\ hw_breakpoint_used' = [hw_breakpoint_used EXCEPT ![n] = 1]
                        /\ hw_breakpoints' = [hw_breakpoints EXCEPT ![n] = addr]
                        /\ tgt_pbr' = [tgt_pbr EXCEPT ![n] = addr]
                        /\ tdr_shadow' = tdr_shadow \cup {30, 13, 9, 24 + n}
                        /\ tgt_tdr' = tdr_shadow'
                        /\ UNCHANGED <<watchpoints, sw_breakpoints, tgt_mem>>
      ]_vars

\* A Z1 request arrived with all four slots taken and was refused.
C11_Witness ==
    /\ bp_last.op = "Z" /\ bp_last.type = 1 /\ bp_last.f = "ok"
    /\ bp_last.reply = <<"E", 14>>
    /\ \A i \in Slots : hw_breakpoint_used[i] = 1 /\ tgt_pbr[i] = hw_breakpoints[i]
    /\ {24, 25, 26, 27} \subseteq tgt_tdr

\* C12: removing a hardware breakpoint writes 0 to its PBR, clears the
\* slot's bit in tdr_shadow, and clears EBL1 | EPC1 in tdr_shadow exactly
\* when no other PC breakpoint remains (otherwise both stay set).
C12_ClearHwBreakpoint ==
    [][ (BpPacketStep /\ bp_last'.op = "z" /\ bp_last'.type \in {0, 1}
         /\ \E i \in Slots : hw_breakpoint_used[i] = 1
                             /\ hw_breakpoints[i] = bp_last'.addr) =>
          \E n \in Slots :
              LET remain == \E i \in Slots : hw_breakpoint_used'[i] = 1
              IN  /\ hw_breakpoint_used[n] = 1
                  /\ hw_breakpoints[n] = bp_last'.addr
                  /\ hw_breakpoint_used' = [hw_breakpoint_used EXCEPT ![n] = 0]
                  /\ (bp_last'.f = "ok" => tgt_pbr' = [tgt_pbr EXCEPT ![n] = 0])
                  /\ (remain => /\ tdr_shadow' = tdr_shadow \ {24 + n}
                                /\ {13, 9} \subseteq tdr_shadow')
                  /\ (~remain => tdr_shadow' = tdr_shadow \ {24 + n, 13, 9})
      ]_vars

\* A hardware breakpoint was removed while another one stays armed.
C12_Witness ==
    /\ bp_last.op = "z" /\ bp_last.path = "hw" /\ bp_last.result = 0
    /\ bp_last.f = "ok"
    /\ \E i \in Slots : hw_breakpoint_used[i] = 1
    /\ \E n \in Slots : hw_breakpoint_used[n] = 0 /\ tgt_pbr[n] = 0
                        /\ (24 + n) \notin tdr_shadow
    /\ {13, 9} \subseteq tdr_shadow

\* C13: removing the watchpoint clears EAR1, the EAL mode bits and the
\* read/write bits in tdr_shadow, and clears TRC_HALT | EBL1 exactly when no
\* hardware PC breakpoint is in use (otherwise both stay set).
C13_ClearWatchpoint ==
    [][ (BpPacketStep /\ bp_last'.op = "z" /\ bp_last'.type \in 2 .. 4
         /\ watchpoints.active = 1
         /\ watchpoints.addr = bp_last'.addr
         /\ watchpoints.length = WatchKind
         /\ watchpoints.type = bp_last'.type) =>
          LET remain == \E i \in Slots : hw_breakpoint_used[i] = 1
          IN  /\ watchpoints'.active = 0
              /\ (remain => /\ tdr_shadow' = tdr_shadow \ {10, 14, 15, 20, 21}
                            /\ {30, 13} \subseteq tdr_shadow')
              /\ (~remain => tdr_shadow' = tdr_shadow \ {10, 14, 15, 20, 21, 30, 13})
      ]_vars

\* The watchpoint was removed while a hardware breakpoint stays armed.
C13_Witness ==
    /\ bp_last.op = "z" /\ bp_last.path = "wp" /\ bp_last.result = 0
    /\ watchpoints.active = 0
    /\ \E i \in Slots : hw_breakpoint_used[i] = 1
    /\ {30, 13} \subseteq tdr_shadow
    /\ tdr_shadow \cap {10, 14, 15, 20, 21} = {}

\* C14: inserting a software breakpoint at addr saves the 16 bits at addr
\* and replaces exactly those 16 bits with 0x4AC8; removing it restores
\* exactly the saved 16 bits; every other memory cell keeps its value.
C14_SwBreakpointPatchesSixteenBits ==
    [][ (BpPacketStep /\ bp_last'.path = "sw" /\ bp_last'.result = 0) =>
          LET a == bp_last'.addr
          IN  /\ \A m \in MemAddrs \ {a} : tgt_mem'[m] = tgt_mem[m]
              /\ bp_last'.op = "Z" =>
                    /\ tgt_mem'[a] = COLDFIRE_HALT_OPCODE
                    /\ \E s \in SwSlots :
                          /\ sw_breakpoints[s].active = 0
                          /\ sw_breakpoints'[s] =
                                [addr |-> a, original_insn |-> tgt_mem[a], active |-> 1]
              /\ bp_last'.op = "z" =>
                    \E s \in SwSlots :
                          /\ sw_breakpoints[s].active = 1
                          /\ sw_breakpoints[s].addr = a
                          /\ sw_breakpoints'[s].active = 0
                          /\ tgt_mem'[a] = sw_breakpoints[s].original_insn
      ]_vars

(***************************************************************************)
(* SpecFn: library functions applied to inputs drawn from bounded sets     *)
(***************************************************************************)
\* The escape introducer 0x7D.
RSP_ESCAPE == 125
\* The bytes the serializer escapes: '#', '$', '*', '}'.
RspSpecialBytes == {35, 36, 42, RSP_ESCAPE}
\* The serializer's escape: a special byte becomes 0x7D, byte XOR 0x20.
RECURSIVE rsp_escape_binary(_)
rsp_escape_binary(data) ==
    IF data = <<>> THEN <<>>
    ELSE (IF data[1] \in RspSpecialBytes
          THEN <<RSP_ESCAPE, Xor20(data[1])>> ELSE <<data[1]>>)
         \o rsp_escape_binary(Tail(data))

\* Longest binary payload drawn.
MaxEscLen == 3
\* '#', '}', their escaped forms 0x03 and 0x5D, and the plain byte 'A'.
EscBytes == {35, RSP_ESCAPE, 3, 93, 65}
EscInputs == UNION {[1 .. n -> EscBytes] : n \in 0 .. MaxEscLen}

\* One payload through unescape, through escape, and both round trips (the
\* functions keep no state: a run applies one of them once).
FnEscape ==
    /\ fn_last.op = None
    /\ \E b \in EscInputs :
        fn_last' = [op        |-> "escape",
                    input     |-> b,
                    unescaped |-> rsp_unescape_binary(b),
                    escaped   |-> rsp_escape_binary(b),
                    unesc_esc |-> rsp_unescape_binary(rsp_escape_binary(b)),
                    esc_unesc |-> rsp_escape_binary(rsp_unescape_binary(b))]

\* Loader result codes (elf_loader.h) and the value the host stores in the
\* result word before it starts the loader.
FLASH_RESULT_SUCCESS == 0
FLASH_RESULT_VERIFY_FAIL == 4
RESULT_UNSET == UintModulus - 1
\* What can happen to one chunk of a verify: the upload of the expected data
\* works or a transfer of it fails, simple_flash_run_op returns r, and the
\* result word read back is result.
VerifyOutcomes ==
    [upload_ok : BOOLEAN, r : {0, 0 - 1},
     result : {FLASH_RESULT_SUCCESS, FLASH_RESULT_VERIFY_FAIL, RESULT_UNSET}]
\* Chunks of the longest verify drawn.
MaxVerifyChunks == 2
VerifyLengths ==
    {0, 1} \cup {k * FLASHLOADER_DATA_BUFFER_SIZE : k \in 1 .. MaxVerifyChunks}
ChunksOf(length) ==
    (length + FLASHLOADER_DATA_BUFFER_SIZE - 1) \div FLASHLOADER_DATA_BUFFER_SIZE

\* The chunk loop of gpl_flash_verify.
RECURSIVE VerifyChunks(_, _, _)
VerifyChunks(length, offset, outcomes) ==
    IF offset >= length THEN 0
    ELSE LET rest == length - offset
             chunk_size == IF rest > FLASHLOADER_DATA_BUFFER_SIZE
                           THEN FLASHLOADER_DATA_BUFFER_SIZE ELSE rest
             o == Head(outcomes)
         IN  IF o.r # 0 THEN 0 - 1
             ELSE IF o.result # FLASH_RESULT_SUCCESS THEN 1
             ELSE VerifyChunks(length, offset + chunk_size, Tail(outcomes))

gpl_flash_verify(initialized, length, outcomes) ==
    IF initialized = 0 THEN 0 - 1
    ELSE IF length = 0 THEN 0
    ELSE VerifyChunks(length, 0, outcomes)

gpl_flash_program_binary(initialized, length, erase_r, program_r, verify, outcomes) ==
    IF initialized = 0 THEN 0 - 1
    ELSE IF length = 0 THEN 0 - 1
    ELSE IF erase_r # 0 THEN 0 - 1
    ELSE IF program_r # 0 THEN 0 - 1
    ELSE IF verify # 0 /\ gpl_flash_verify(initialized, length, outcomes) # 0
    THEN 0 - 1
    ELSE 0

\* One call of gpl_flash_verify and one of gpl_flash_program_binary on the
\* same flash contents and the same course of the loader operations.
FnVerify ==
    /\ fn_last.op = None
    /\ \E initialized \in {0, 1}, length \in VerifyLengths,
          erase_r \in {0, 0 - 1}, program_r \in {0, 0 - 1}, verify \in {0, 1} :
      \E outcomes \in [1 .. ChunksOf(length) -> VerifyOutcomes] :
        fn_last' = [op          |-> "verify",
                    initialized |-> initialized,
                    length      |-> length,
                    erase_r     |-> erase_r,
                    program_r   |-> program_r,
                    verify      |-> verify,
                    outcomes    |-> outcomes,
                    verify_ret  |-> gpl_flash_verify(initialized, length, outcomes),
                    binary_ret  |-> gpl_flash_program_binary(initialized, length,
                                        erase_r, program_r, verify, outcomes)]

NextFn ==
    \/ FnEscape
    \/ FnVerify

SpecFn == Init /\ [][NextFn /\ UNCHANGED <<coordVars, rxVars, flashVars, bpVars,
                                             podVars>>]_vars

\* What a verify really met: the first chunk that did not verify cleanly
\* decides between a data mismatch and a failure of the loader or of BDM.
RECURSIVE VerifyTruthChunks(_)
VerifyTruthChunks(outcomes) ==
    IF outcomes = <<>> THEN "success"
    ELSE LET o == Head(outcomes)
         IN  IF ~o.upload_ok \/ o.r # 0 THEN "error"
             ELSE IF o.result = FLASH_RESULT_VERIFY_FAIL THEN "mismatch"
             ELSE IF o.result # FLASH_RESULT_SUCCESS THEN "error"
             ELSE VerifyTruthChunks(Tail(outcomes))
VerifyTruth ==
    IF fn_last.initialized = 0 THEN "error"
    ELSE VerifyTruthChunks(fn_last.outcomes)
\* The call of gpl_flash_program_binary got as far as its verify.
BinaryReachedVerify ==
    /\ fn_last.initialized = 1 /\ fn_last.length > 0
    /\ fn_last.erase_r = 0 /\ fn_last.program_r = 0 /\ fn_last.verify = 1

\* C21: success, data mismatch and loader/BDM failure are reported as three
\* different results by gpl_flash_verify, and gpl_flash_program_binary,
\* which reports the verify result, keeps them apart too.
C21_VerifyMismatchDistinct ==
    fn_last.op = "verify" =>
        /\ fn_last.verify_ret = 0 <=> VerifyTruth = "success"
        /\ fn_last.verify_ret = 1 <=> VerifyTruth = "mismatch"
        /\ fn_last.verify_ret = 0 - 1 <=> VerifyTruth = "error"
        /\ BinaryReachedVerify =>
              /\ fn_last.binary_ret = 0 <=> VerifyTruth = "success"
              /\ fn_last.binary_ret = 0 - 1 <=> VerifyTruth = "error"

\* No special byte stands unescaped: '#', '$', '*' and '}' occur only as
\* the 0x7D that introduces an escape, and every 0x7D is followed by a byte
\* that is not special itself.
RECURSIVE WellEscaped(_)
WellEscaped(b) ==
    IF b = <<>> THEN TRUE
    ELSE IF b[1] = RSP_ESCAPE
    THEN /\ Len(b) > 1
         /\ b[2] \notin RspSpecialBytes
         /\ WellEscaped(SubSeq(b, 3, Len(b)))
    ELSE b[1] \notin RspSpecialBytes /\ WellEscaped(Tail(b))
\* Moreover every 0x7D is followed by the escaped form of a special byte.
RECURSIVE CanonicallyEscaped(_)
CanonicallyEscaped(b) ==
    IF b = <<>> THEN TRUE
    ELSE IF b[1] = RSP_ESCAPE
    THEN /\ Len(b) > 1
         /\ b[2] \in {Xor20(x) : x \in RspSpecialBytes}
         /\ CanonicallyEscaped(SubSeq(b, 3, Len(b)))
    ELSE b[1] \notin RspSpecialBytes /\ CanonicallyEscaped(Tail(b))

\* C28 as stated: unescape(escape(b)) = b for every payload b, and
\* escape(unescape(b)) = b for every b in which no special byte stands
\* unescaped and no 0x7D is the last byte.
C28_EscapeRoundTrips ==
    fn_last.op = "escape" =>
        /\ fn_last.unesc_esc = fn_last.input
        /\ WellEscaped(fn_last.input) => fn_last.esc_unesc = fn_last.input

\* C28 amended: unescape(escape(b)) = b for every payload b, and
\* escape(unescape(b)) = b exactly for the payloads in which, in addition,
\* every 0x7D is followed by the escaped form of a special byte.
C28_EscapeRoundTripsCanonical ==
    fn_last.op = "escape" =>
        /\ fn_last.unesc_esc = fn_last.input
        /\ CanonicallyEscaped(fn_last.input) <=> fn_last.esc_unesc = fn_last.input

\* A payload with an escape pair and plain bytes went both ways unchanged.
C28_Witness ==
    /\ fn_last.op = "escape"
    /\ Len(fn_last.input) = MaxEscLen
    /\ \E i \in 1 .. Len(fn_last.input) : fn_last.input[i] = RSP_ESCAPE
    /\ \E i \in 1 .. Len(fn_last.escaped) : fn_last.escaped[i] = RSP_ESCAPE
    /\ CanonicallyEscaped(fn_last.input)
    /\ fn_last.esc_unesc = fn_last.input
    /\ fn_last.unesc_esc = fn_last.input

(***************************************************************************)
(* The recorded target state (checked under Spec)                          *)
(***************************************************************************)
\* C29: the recorded state goes from Running to Halted only when the target
\* has really stopped (a halt or freeze was confirmed), and from Halted to
\* Running only when the resume really went out and the target runs.
C29_RecordedStateConfirmed ==
    [][ /\ (g_target_halted = 0 /\ g_target_halted' = 1) => ~tgt_running'
        /\ (g_target_halted = 1 /\ g_target_halted' = 0) => tgt_running' ]_vars

(***************************************************************************)
(* SpecPod: the host-to-pod command layer (src/src/openlink_protocol.c)    *)
(*                                                                         *)
(* A command is a descriptor [name, bytes, pad, via, min]: the bytes its   *)
(* function writes at the start of g_cmd_buffer, what it does to the rest  *)
(* of the buffer, and how it is sent: "aa" with send_aa_command, "none"    *)
(* with send_aa_command_no_response, "local" and "inplace" with their own  *)
(* transfers (cmd_07_13; cmd_071b, cmd_read_memory_long_addr), which       *)
(* validate a response of at least min bytes.  32-bit values are below     *)
(* 2^31.  A buffer is the sequence of its 256 bytes; At(buf, i) is buf[i]  *)
(* of the C code.                                                          *)
(***************************************************************************)
At(buf, i) == buf[i + 1]
HiByte(v) == (v \div 256) % 256
LoByte(v) == v % 256
U32Bytes(v) == <<(v \div 16777216) % 256, (v \div 65536) % 256, HiByte(v), LoByte(v)>>
\* x | 0x42 for a 5-bit x.
Or42(x) == 64 + (IF (x \div 2) % 2 = 1 THEN x ELSE x + 2)

STATUS_OK == 238
HDR_STANDARD == <<153, 102>>
HDR_MEMREAD == <<136, 165>>
AA55 == <<170, 85>>

PadKeep == [kind |-> "keep", hi |-> 0, lo |-> 0]

cmd_bdm_resume ==
    [name |-> "04 40", bytes |-> AA55 \o <<0, 4, 4, 64, 88, 4>>,
     pad |-> PadKeep, via |-> "none", min |-> 0]

cmd_07_02_bdm_go ==
    [name |-> "07 02", bytes |-> AA55 \o <<0, 5, 7, 2, 252, 12, 0>>,
     pad |-> PadKeep, via |-> "aa", min |-> 0]

cmd_07_14_write_bdm_reg(reg, value) ==
    [name |-> "07 14",
     bytes |-> AA55 \o <<0, 12, 7, 20, 40, 128, 0, 0, HiByte(reg), LoByte(reg)>>
               \o U32Bytes(value),
     pad |-> PadKeep, via |-> "aa", min |-> 0]

cmd_07_14_write_debug_reg(drc, value) ==
    [name |-> "07 14",
     bytes |-> AA55 \o <<0, 12, 7, 20, 44, Or42(drc % 32), 0, 0, 0, LoByte(drc)>>
               \o U32Bytes(value),
     pad |-> PadKeep, via |-> "aa", min |-> 0]

cmd_07_12(param) ==
    [name |-> "07 12", bytes |-> AA55 \o <<0, 2, 7, 18>>,
     pad |-> [kind |-> "param", hi |-> HiByte(param), lo |-> LoByte(param)],
     via |-> "aa", min |-> 0]

cmd_07_19(addr, data) ==
    [name |-> "07 19",
     bytes |-> AA55 \o <<0, 12, 7, 25, 0, 4>> \o U32Bytes(addr) \o U32Bytes(data),
     pad |-> [kind |-> "zero02", hi |-> 0, lo |-> 0], via |-> "aa", min |-> 0]

cmd_07_10(reg) ==
    [name |-> "07 10", bytes |-> AA55 \o <<0, 5, 7, 16, 0, HiByte(reg), LoByte(reg)>>,
     pad |-> PadKeep, via |-> "aa", min |-> 0]

cmd_07_11(reg, p1, p2, p3, p4) ==
    [name |-> "07 11",
     bytes |-> AA55 \o <<0, 8, 7, 17, HiByte(reg), LoByte(reg), p1, p2, p3, p4>>,
     pad |-> PadKeep, via |-> "aa", min |-> 0]

cmd_07_13(reg) ==
    [name |-> "07 13", bytes |-> AA55 \o <<0, 4, 7, 19, HiByte(reg), LoByte(reg)>>,
     pad |-> PadKeep, via |-> "local", min |-> 9]

cmd_071b(addr, length) ==
    [name |-> "07 1b",
     bytes |-> AA55 \o <<0, 8, 7, 27>> \o U32Bytes(addr)
               \o <<HiByte(length), LoByte(length)>>,
     pad |-> PadKeep, via |-> "inplace", min |-> 5 + length]

cmd_071b_read_sram_longword(addr) == cmd_071b(addr, 16)

cmd_enter_mode(mode) ==
    [name |-> "07 01", bytes |-> AA55 \o <<0, 3, 7, 1, mode>>,
     pad |-> PadKeep, via |-> "aa", min |-> 0]

\* A command that writes bytes after AA 55, keeps the rest of the buffer and
\* goes out with send_aa_command.
AaCmd(name, bytes) ==
    [name |-> name, bytes |-> AA55 \o bytes, pad |-> PadKeep, via |-> "aa", min |-> 0]

cmd_07_a2(param) == AaCmd("07 a2", <<0, 3, 7, 162, param>>)
cmd_04_40_58_04 == AaCmd("04 40", <<0, 4, 4, 64, 88, 4>>)
cmd_04_7f_fe_02 == AaCmd("04 7f", <<0, 4, 4, 127, 254, 2>>)
cmd_07_95 == AaCmd("07 95", <<0, 2, 7, 149>>)
cmd_04_40_00_02 == AaCmd("04 40", <<0, 4, 4, 64, 0, 2>>)
cmd_enable_memory_access(param) == AaCmd("07 0a", <<0, 3, 7, 10, param>>)
cmd_write_bdm_reg(reg, data) ==
    AaCmd("07 16", <<0, 8, 7, 22, HiByte(reg), LoByte(reg)>> \o U32Bytes(data))
cmd_07_15(reg, params) ==
    AaCmd("07 15", <<0, 4 + Len(params), 7, 21, HiByte(reg), LoByte(reg)>> \o params)
cmd_write_memory_long_addr(addr, data) ==
    AaCmd("07 16", <<0, 10, 7, 22>> \o U32Bytes(addr) \o U32Bytes(data))
cmd_write_memory_short_addr(addr, data) ==
    AaCmd("07 16", <<0, 8, 7, 22, HiByte(addr), LoByte(addr)>> \o U32Bytes(data))
cmd_read_memory_long_addr(addr) ==
    [name |-> "07 13", bytes |-> AA55 \o <<0, 6, 7, 19>> \o U32Bytes(addr),
     pad |-> PadKeep, via |-> "inplace", min |-> 9]

\* The 256 bytes handed to the OUT transfer: what the command's function
\* leaves in the buffer that held buf before.
BuildRequest(buf, c) ==
    c.bytes \o
    (IF c.pad.kind = "keep" THEN SubSeq(buf, Len(c.bytes) + 1, BUF_SIZE)
     ELSE SubSeq([j \in 1 .. BUF_SIZE |->
                    LET i == j - 1
                    IN  IF c.pad.kind = "param"
                        THEN (IF i % 2 = 0 THEN c.pad.hi ELSE c.pad.lo)
                        ELSE IF (i - 16) % 6 \in {0, 5} THEN 2 ELSE 0],
                 Len(c.bytes) + 1, BUF_SIZE))

(***************************************************************************)
(* The pod's side of one command                                           *)
(***************************************************************************)
\* What one command meets: the OUT transfer fails; the IN transfer times
\* out or fails; or a response of len bytes arrives.  junk is what the
\* uninitialised response_buffer holds past the received bytes.
OutFail == [kind |-> "out_fail", len |-> 0, hdr |-> <<0, 0>>, status |-> 0, junk |-> 0]
NoReply == [kind |-> "no_reply", len |-> 0, hdr |-> <<0, 0>>, status |-> 0, junk |-> 0]
Reply(len, hdr, status, junk) ==
    [kind |-> "reply", len |-> len, hdr |-> hdr, status |-> status, junk |-> junk]

ReplyLens == {3, 5, BUF_SIZE}
ReplyHdrs == {HDR_STANDARD, HDR_MEMREAD, <<0, 102>>}
ReplyStatus == {STATUS_OK, 17}
StackJunk == {0, 165}
PodReplies ==
    {OutFail, NoReply} \cup
    {Reply(l, h, s, j) : l \in ReplyLens, h \in ReplyHdrs, s \in ReplyStatus,
                         j \in StackJunk}
\* The reply of a pod that has nothing to complain about.
GoodReply == Reply(32, HDR_STANDARD, STATUS_OK, 0)
BadStatusReply == Reply(32, HDR_STANDARD, 17, 0)
\* What goes wrong with one command of a longer operation.
Faults == {NoReply, BadStatusReply}
\* A few replies to a single command.
FewReplies == {OutFail, NoReply, GoodReply, BadStatusReply,
               Reply(3, HDR_STANDARD, STATUS_OK, 165)}

\* response_buffer after the IN transfer: header, the length of what follows
\* the first four bytes, the status byte, data.
ReplyByte(o, i) ==
    IF i >= o.len THEN o.junk
    ELSE IF i < 2 THEN o.hdr[i + 1]
    ELSE IF i = 2 THEN HiByte(o.len - 4)
    ELSE IF i = 3 THEN LoByte(o.len - 4)
    ELSE IF i = 4 THEN o.status
    ELSE (7 * i + 3) % 256
GoodReplyBytes == SubSeq([j \in 1 .. BUF_SIZE |-> ReplyByte(GoodReply, j - 1)], 1, BUF_SIZE)
ReplyBytes(o) ==
    IF o = GoodReply THEN GoodReplyBytes
    ELSE SubSeq([j \in 1 .. BUF_SIZE |-> ReplyByte(o, j - 1)], 1, BUF_SIZE)

\* The first five bytes of response_buffer: header, length, status.
Resp5(o) == [j \in 1 .. 5 |-> ReplyByte(o, j - 1)]

send_aa_command(cmd_data, o) ==
    IF o.kind = "out_fail"
    THEN [ret |-> 0 - 1, buf |-> cmd_data, in_reads |-> 0, resp_len |-> 0 - 1,
          resp5 |-> <<>>]
    ELSE IF o.kind = "no_reply"
    THEN [ret |-> 0 - 1, buf |-> cmd_data, in_reads |-> 1, resp_len |-> 0 - 1,
          resp5 |-> <<>>]
    ELSE [ret |-> 0, buf |-> ReplyBytes(o), in_reads |-> 1, resp_len |-> o.len,
          resp5 |-> Resp5(o)]

send_aa_command_no_response(cmd_data, o) ==
    [ret |-> IF o.kind = "out_fail" THEN 0 - 1 ELSE 0, buf |-> cmd_data,
     in_reads |-> 0, resp_len |-> 0 - 1, resp5 |-> <<>>]

validate_response(buffer, length, min_length) ==
    IF length < min_length THEN 0 - 1
    ELSE IF <<At(buffer, 0), At(buffer, 1)>> \in {HDR_STANDARD, HDR_MEMREAD}
            /\ length >= 5 /\ At(buffer, 4) = STATUS_OK
    THEN 0
    ELSE 0 - 1

\* The transfers of cmd_07_13: the response goes to a local buffer and is
\* checked in place.
send_07_13(cmd_data, o) ==
    [ret |-> IF o.kind = "reply" /\ o.len >= 9 /\ o.hdr = HDR_STANDARD
                /\ o.status = STATUS_OK
             THEN 0 ELSE 0 - 1,
     buf |-> cmd_data,
     in_reads |-> IF o.kind = "out_fail" THEN 0 ELSE 1,
     resp_len |-> IF o.kind = "reply" THEN o.len ELSE 0 - 1,
     resp5 |-> IF o.kind = "reply" THEN Resp5(o) ELSE <<>>]

\* The transfers of cmd_071b: the response is received into g_cmd_buffer
\* itself; the pod delivers it in one packet.
send_071b(cmd_data, o, min_length) ==
    LET got == SubSeq(ReplyBytes(o), 1, o.len) \o SubSeq(cmd_data, o.len + 1, BUF_SIZE)
    IN  IF o.kind # "reply"
        THEN [ret |-> 0 - 1, buf |-> cmd_data,
              in_reads |-> IF o.kind = "out_fail" THEN 0 ELSE 1, resp_len |-> 0 - 1,
              resp5 |-> <<>>]
        ELSE [ret |-> IF o.len < 4 THEN 0 - 1
                      ELSE validate_response(got, o.len, min_length),
              buf |-> got, in_reads |-> 1, resp_len |-> o.len, resp5 |-> Resp5(o)]

Send(req, c, o) ==
    IF c.via = "aa" THEN send_aa_command(req, o)
    ELSE IF c.via = "none" THEN send_aa_command_no_response(req, o)
    ELSE IF c.via = "local" THEN send_07_13(req, o)
    ELSE send_071b(req, o, c.min)

(***************************************************************************)
(* Host operations: the commands they issue, in order                      *)
(***************************************************************************)
\* One command of an operation and what the operation does with its result:
\*   "ret"    if (r != 0) return -1;
\*   "or"     r |= ...;  the test comes with a later command
\*   "or_ret" r |= ...;  if (r != 0) return -1;
\*   "drop"   the result is not used, or only printed
\*   "skip1"  as "drop", and a failure skips the next command
Step(c, check) == [c |-> c, check |-> check]
\* What the log keeps of one command: the first 16 bytes sent, the result,
\* the IN transfers made.
Entry(c, req, s) ==
    [name |-> c.name, hdr |-> SubSeq(req, 1, 16), ret |-> s.ret,
     in_reads |-> s.in_reads]

\* One command run on the buffer buf: the request built, the transfers made.
Exec(c, o, buf) ==
    LET req == BuildRequest(buf, c)
        s   == Send(req, c, o)
    IN  [ret |-> s.ret, buf |-> s.buf, entry |-> Entry(c, req, s), req |-> req,
         resp_len |-> s.resp_len, resp5 |-> s.resp5]

\* An operation under way: the buffer, the log, the r that "r |= ..." has
\* accumulated, whether the next command is skipped, whether the operation
\* has returned -1, and the last command's request and response.
RunStart(buf) ==
    [buf |-> buf, trace |-> <<>>, ored |-> FALSE, skip |-> FALSE, stop |-> FALSE,
     prev |-> buf, req |-> buf, hlen |-> 0, resp_len |-> 0 - 1, resp5 |-> <<>>,
     via |-> "none"]

\* (x ranges over the one result of the command.)
RunStep(step, o, st) ==
    IF st.skip THEN [st EXCEPT !.skip = FALSE]
    ELSE CHOOSE r \in
        { LET bad   == x.ret # 0
              ored2 == IF step.check \in {"or", "or_ret"} THEN st.ored \/ bad
                       ELSE st.ored
          IN  [buf |-> x.buf, trace |-> Append(st.trace, x.entry), ored |-> ored2,
               skip |-> step.check = "skip1" /\ bad,
               stop |-> (step.check = "ret" /\ bad) \/ (step.check = "or_ret" /\ ored2),
               prev |-> st.buf, req |-> x.req, hlen |-> Len(step.c.bytes),
               resp_len |-> x.resp_len, resp5 |-> x.resp5, via |-> step.c.via]
          : x \in {Exec(step.c, o, st.buf)} } : TRUE

\* The steps lo .. hi in order, stopping where the operation returns.
RECURSIVE RunRange(_, _, _, _, _)
RunRange(steps, outs, lo, hi, st) ==
    IF st.stop THEN st
    ELSE IF lo = hi THEN RunStep(steps[lo], outs[lo], st)
    ELSE CHOOSE r \in
            { RunRange(steps, outs, (lo + hi) \div 2 + 1, hi, left)
              : left \in {RunRange(steps, outs, lo, (lo + hi) \div 2, st)} } : TRUE

\* Replies to the n commands of an operation: all good, or the k-th meets o.
Outs(n, k, o) == [i \in 1 .. n |-> IF i = k THEN o ELSE GoodReply]

MaxPodOps == 2

\* The operation runs steps; end_ret is what it returns when no command made
\* it return early.
PodOp(op, steps, outs, end_ret) ==
    /\ pod_count < MaxPodOps
    /\ op # "init_target" => (pod_last.op # None /\ pod_last.started)
    /\ pod_count' = pod_count + 1
    /\ \E start \in {RunStart(g_cmd_buffer)} :
       \E r \in {RunRange(steps, outs, 1, Len(steps), start)} :
        /\ g_cmd_buffer' = r.buf
        /\ pod_last' = [op |-> op, ret |-> IF r.stop THEN 0 - 1 ELSE end_ret,
                        trace |-> r.trace, prev |-> r.prev, req |-> r.req,
                        hlen |-> r.hlen, resp_len |-> r.resp_len,
                        resp5 |-> r.resp5, via |-> r.via,
                        started |-> op = "init_target" => ~r.stop]

\* No fault, or one fault at one of the positions ks.
FaultyOuts(n, ks) == {Outs(n, 0, GoodReply)} \cup {Outs(n, k, o) : k \in ks, o \in Faults}
\* The positions of the steps whose result decides something, and the first.
Decisive(steps) == {1} \cup {k \in 1 .. Len(steps) : steps[k].check \in {"ret", "or_ret", "skip1"}}

SYNC_PARAM == 65535
REG_SR == 16
FLASHLOADER_PARAM_OPERATION == 536870912
FLASHLOADER_PARAM_FLASH_ADDR == 536870916
FLASHLOADER_PARAM_LENGTH == 536870920
FLASHLOADER_PARAM_RESULT == 536870924
FLASHLOADER_PARAM_STATUS == 536870928
BDM_REG_PC == 2063
BDM_REG_SR == 2062
ABLR_WRITE == 11404
ABHR_WRITE == 11405
DEBUG_REG_TDR == 7
DEBUG_REG_ABHR == 12
DEBUG_REG_ABLR == 13
pbr_reg == <<8, 24, 26, 27>>

cmd_write_pc_cmds(pc_value) ==
    <<Step(cmd_07_14_write_bdm_reg(BDM_REG_PC, pc_value), "ret"),
      Step(cmd_07_12(SYNC_PARAM), "ret")>>

write_cpu_register_cmds(reg_num, value) ==
    IF reg_num = REG_PC THEN cmd_write_pc_cmds(value)
    ELSE <<Step(cmd_07_14_write_bdm_reg(
                    IF reg_num = REG_SR THEN BDM_REG_SR ELSE 384 + reg_num, value),
                "ret")>>

write_pbr_cmds(index, addr) ==
    <<Step(cmd_07_14_write_debug_reg(pbr_reg[index + 1], addr), "ret"),
      Step(cmd_07_12(SYNC_PARAM), "ret")>>

write_tdr_cmds(value) ==
    <<Step(cmd_07_14_write_debug_reg(DEBUG_REG_TDR, value), "ret"),
      Step(cmd_07_12(SYNC_PARAM), "ret")>>

write_ablr_cmds(addr) == <<Step(cmd_07_14_write_bdm_reg(ABLR_WRITE, addr), "ret")>>
write_abhr_cmds(addr) == <<Step(cmd_07_14_write_bdm_reg(ABHR_WRITE, addr), "ret")>>

PodValue == 4660

OpCmd0712 ==
    \E o \in PodReplies :
        PodOp("cmd_07_12", <<Step(cmd_07_12(SYNC_PARAM), "ret")>>, <<o>>, 0)
OpCmd0719 ==
    \E o \in FewReplies :
        PodOp("cmd_07_19",
              <<Step(cmd_07_19(FLASHLOADER_PARAM_OPERATION, PodValue), "ret")>>, <<o>>, 0)
OpBdmGo ==
    \E o \in FewReplies :
        PodOp("cmd_07_02_bdm_go", <<Step(cmd_07_02_bdm_go, "ret")>>, <<o>>, 0)
OpBdmResume ==
    \E o \in {OutFail, NoReply} :
        PodOp("cmd_bdm_resume", <<Step(cmd_bdm_resume, "ret")>>, <<o>>, 0)
OpWriteCpuRegister ==
    \E reg_num \in {0, REG_SR, REG_PC} :
        \E steps \in {write_cpu_register_cmds(reg_num, PodValue)} :
            \E outs \in FaultyOuts(Len(steps), Decisive(steps)) :
                PodOp("write_cpu_register", steps, outs, 0)
OpWritePbr ==
    \E index \in Slots, outs \in FaultyOuts(2, {1, 2}) :
        PodOp("write_pbr", write_pbr_cmds(index, PodValue), outs, 0)
OpWriteTdr ==
    \E outs \in FaultyOuts(2, {1, 2}) :
        PodOp("write_tdr", write_tdr_cmds(PodValue), outs, 0)
OpWriteAblr ==
    \E outs \in FaultyOuts(1, {1}) :
        PodOp("write_ablr", write_ablr_cmds(PodValue), outs, 0)
OpWriteAbhr ==
    \E outs \in FaultyOuts(1, {1}) :
        PodOp("write_abhr", write_abhr_cmds(PodValue), outs, 0)

(***************************************************************************)
(* simple_flash_run_op (elf_loader.c) with the flashloader already loaded  *)
(***************************************************************************)
FLASH_OP_VERIFY == 5
FLASH_POLL_TIMEOUT == 5
CSR_READ == 11648
SR_SUPERVISOR == 9984
WindowSetup ==
    <<Step(cmd_07_10(CSR_READ), "drop"), Step(cmd_07_10(0), "drop"),
      Step(cmd_07_10(0), "drop"), Step(cmd_07_10(11392), "drop"),
      Step(cmd_07_10(656), "drop"), Step(cmd_07_10(16384), "drop")>>

\* wait_for_flashloader_halt: one CSR read per second until the halted bit
\* shows; halt_seen: the first read shows it, otherwise none does.
wait_for_flashloader_halt_cmds(halt_seen) ==
    [i \in 1 .. (IF halt_seen THEN 1 ELSE FLASH_POLL_TIMEOUT) |->
        Step(cmd_07_13(CSR_READ), "ret")]

simple_flash_run_op_cmds(operation, flash_addr, length, entry_point, halt_seen) ==
    <<Step(cmd_07_19(FLASHLOADER_PARAM_OPERATION, operation), "drop"),
      Step(cmd_07_19(FLASHLOADER_PARAM_FLASH_ADDR, flash_addr), "drop"),
      Step(cmd_07_19(FLASHLOADER_PARAM_LENGTH, length), "drop"),
      Step(cmd_07_19(FLASHLOADER_PARAM_RESULT, RESULT_UNSET), "drop"),
      Step(cmd_07_19(FLASHLOADER_PARAM_STATUS, 0), "drop"),
      Step(cmd_071b_read_sram_longword(FLASHLOADER_PARAM_OPERATION), "drop"),
      Step(cmd_071b_read_sram_longword(FLASHLOADER_PARAM_FLASH_ADDR), "drop"),
      Step(cmd_071b_read_sram_longword(FLASHLOADER_PARAM_LENGTH), "drop"),
      Step(cmd_07_14_write_bdm_reg(BDM_REG_PC, entry_point), "drop"),
      Step(cmd_07_14_write_bdm_reg(BDM_REG_SR, SR_SUPERVISOR), "drop"),
      Step(cmd_07_11(10624, 0, 0, 8, 15), "drop"),
      Step(cmd_07_11(10624, 0, 0, 0, 2), "drop")>>
    \o WindowSetup
    \o <<Step(cmd_07_11(10624, 0, 0, 8, 15), "drop"),
         Step(cmd_07_14_write_bdm_reg(BDM_REG_PC, entry_point), "drop"),
         Step(cmd_07_02_bdm_go, "ret")>>
    \o wait_for_flashloader_halt_cmds(halt_seen)
    \o (IF halt_seen
        THEN <<Step(cmd_071b_read_sram_longword(FLASHLOADER_PARAM_RESULT), "ret"),
               Step(cmd_071b_read_sram_longword(FLASHLOADER_PARAM_STATUS), "drop"),
               Step(cmd_enter_mode(248), "drop")>>
        ELSE <<>>)

OpSimpleFlashRunOp ==
    \E halt_seen \in BOOLEAN :
        \E steps \in {simple_flash_run_op_cmds(FLASH_OP_VERIFY, 0, 4, PodValue,
                                                halt_seen)} :
            \E outs \in FaultyOuts(Len(steps), Decisive(steps)) :
                PodOp("simple_flash_run_op", steps, outs,
                      IF halt_seen THEN 0 ELSE 0 - 1)

(***************************************************************************)
(* Bring-up: main calls init_target, which runs target_init_full and then  *)
(* clears the debug registers                                              *)
(***************************************************************************)
\* The eight commands of "BDM init" / "BDM resume"; check is how the first
\* seven results are used, last how the eighth is.
BdmInitGroup(check, last_check) ==
    <<Step(cmd_07_a2(1), check), Step(cmd_04_40_58_04, check),
      Step(cmd_04_7f_fe_02, check), Step(cmd_04_7f_fe_02, check),
      Step(cmd_07_95, check), Step(cmd_04_40_00_02, check),
      Step(cmd_enable_memory_access(0), check),
      Step(cmd_enable_memory_access(0), last_check)>>

ModeCycle(check, last_check) ==
    <<Step(cmd_enter_mode(248), check), Step(cmd_enter_mode(240), check),
      Step(cmd_enter_mode(248), last_check)>>

SysConfigParams == <<64, 16, 0, 116, 0, 15>>
RAM_TEST_ADDR == 8328

\* ram_match: the first RAM test pattern read back as written.
target_init_full_cmds(ram_match) ==
    <<Step(cmd_enter_mode(252), "ret")>>
    \o BdmInitGroup("ret", "ret")
    \o BdmInitGroup("or", "or_ret")
    \o ModeCycle("ret", "ret")
    \o <<Step(cmd_07_12(SYNC_PARAM), "ret"),
         Step(cmd_07_13(CSR_READ), "ret"),
         Step(cmd_07_14_write_bdm_reg(BDM_REG_SR, SR_SUPERVISOR), "ret"),
         Step(cmd_07_14_write_bdm_reg(3077, 536871457), "ret"),
         Step(cmd_07_14_write_bdm_reg(BDM_REG_PC, 9202), "ret"),
         Step(cmd_07_13(8584), "drop"),
         Step(cmd_write_bdm_reg(3076, 97), "ret"),
         Step(cmd_07_11(6464, 252, 10, 0, 10), "drop"),
         Step(cmd_07_11(6464, 64, 17, 0, 10), "drop"),
         Step(cmd_07_11(6400, 64, 16, 0, 116), "drop"),
         Step(cmd_07_15(6144, SysConfigParams), "drop"),
         Step(cmd_07_12(SYNC_PARAM), "drop"),
         Step(cmd_write_memory_long_addr(RAM_TEST_ADDR, 305419896), "ret"),
         Step(cmd_read_memory_long_addr(RAM_TEST_ADDR), "ret")>>
    \o (IF ram_match
        THEN <<Step(cmd_write_memory_long_addr(RAM_TEST_ADDR, 1073744904), "skip1"),
               Step(cmd_read_memory_long_addr(RAM_TEST_ADDR), "drop")>>
        ELSE <<>>)
    \o BdmInitGroup("or", "or_ret")
    \o ModeCycle("or", "or_ret")
    \o <<Step(cmd_07_12(SYNC_PARAM), "or"),
         Step(cmd_07_13(CSR_READ), "or"),
         Step(cmd_07_11(6464, 252, 10, 0, 10), "or"),
         Step(cmd_07_11(6464, 64, 17, 0, 10), "or"),
         Step(cmd_07_11(6400, 64, 16, 0, 116), "or"),
         Step(cmd_07_15(6144, SysConfigParams), "or"),
         Step(cmd_07_15(6144, SysConfigParams), "or"),
         Step(cmd_07_12(SYNC_PARAM), "or_ret"),
         Step(cmd_write_memory_short_addr(RAM_TEST_ADDR, 536871096), "drop"),
         Step(cmd_07_13(8584), "drop"),
         Step(cmd_read_memory_long_addr(1074855944), "drop")>>

\* What init_target adds when target_init_full returned 0: PBR0..3, ABLR,
\* ABHR and TDR cleared, every result dropped.
ClearPbr(index) ==
    <<Step(cmd_07_14_write_debug_reg(pbr_reg[index + 1], 0), "skip1"),
      Step(cmd_07_12(SYNC_PARAM), "drop")>>
init_target_clear_cmds ==
    ClearPbr(0) \o ClearPbr(1) \o ClearPbr(2) \o ClearPbr(3)
    \o <<Step(cmd_07_14_write_bdm_reg(ABLR_WRITE, 0), "drop"),
         Step(cmd_07_14_write_bdm_reg(ABHR_WRITE, 0), "drop"),
         Step(cmd_07_14_write_debug_reg(DEBUG_REG_TDR, 0), "skip1"),
         Step(cmd_07_12(SYNC_PARAM), "drop")>>

init_target_cmds(ram_match) == target_init_full_cmds(ram_match) \o init_target_clear_cmds

\* main up to the point where it either gives up or goes on to listen for a
\* client: the first thing the program does with the pod.
OpInitTarget ==
    /\ pod_count = 0
    /\ \E ram_match \in BOOLEAN :
        \E steps \in {init_target_cmds(ram_match)} :
            \E outs \in FaultyOuts(Len(steps), 1 .. Len(steps)) :
                PodOp("init_target", steps, outs, 0)

(***************************************************************************)
(* cmd_0717_read_memory                                                    *)
(***************************************************************************)
MAX_IN_PACKETS == 10
\* The byte the target holds at address a.
TargetByte(a) == (5 * a + 1) % 256
\* The pod's answer to a read of request_length raw bytes at addr: header,
\* length, status, then groups of four data bytes and two zero bytes.
PodReadResponse(addr, request_length, hdr, status) ==
    [i \in 1 .. (5 + request_length) |->
        IF i <= 2 THEN hdr[i]
        ELSE IF i = 3 THEN HiByte(1 + request_length)
        ELSE IF i = 4 THEN LoByte(1 + request_length)
        ELSE IF i = 5 THEN status
        ELSE IF (i - 6) % 6 < 4
             THEN TargetByte(addr + 4 * ((i - 6) \div 6) + ((i - 6) % 6))
        ELSE 0]

Min(a, b) == IF a < b THEN a ELSE b

\* The receive loop after the first packet: the pod hands over its response
\* in transfers of at most pkt bytes.  Returns total_received.
RECURSIVE ReadMorePackets(_, _, _, _, _)
ReadMorePackets(total_received, total_expected, packet_num, pkt, resp_total) ==
    IF total_received < total_expected /\ total_received < BUF_SIZE
       /\ packet_num < MAX_IN_PACKETS
    THEN LET remaining_space == BUF_SIZE - total_received
             chunk_len == Min(Min(pkt, remaining_space), resp_total - total_received)
         IN  IF chunk_len < remaining_space
             THEN total_received + chunk_len
             ELSE ReadMorePackets(total_received + chunk_len, total_expected,
                                  packet_num + 1, pkt, resp_total)
    ELSE total_received

\* The extraction loop: how many output bytes it writes.
RECURSIVE ExtractCount(_, _, _)
ExtractCount(bytes_remaining, src_offset, total_received) ==
    IF bytes_remaining > 0 /\ src_offset + 4 <= total_received
    THEN LET chunk == IF bytes_remaining >= 4 THEN 4 ELSE bytes_remaining
         IN  chunk + ExtractCount(bytes_remaining - chunk, src_offset + 6, total_received)
    ELSE 0

Unwritten == 0 - 1

\* usb: "ok", "out_fail" or "in_fail" (the first IN transfer fails).
cmd_0717_read_memory(buf, addr, length, usb, pkt, hdr, status) ==
    LET request_length == (((length + 3) \div 4) * 6) % UintModulus
        c    == [name |-> "07 17",
                 bytes |-> AA55 \o <<0, 8, 7, 23>> \o U32Bytes(addr)
                           \o <<HiByte(request_length), LoByte(request_length)>>,
                 pad |-> PadKeep, via |-> "inplace", min |-> 5 + length]
        req  == BuildRequest(buf, c)
        resp == PodReadResponse(addr, request_length, hdr, status)
        first == Min(Min(pkt, BUF_SIZE), Len(resp))
        total_expected == 4 + 256 * resp[3] + resp[4]
        total_received == ReadMorePackets(first, total_expected, 2, pkt, Len(resp))
        got  == SubSeq(resp, 1, total_received)
                \o SubSeq(req, total_received + 1, BUF_SIZE)
        ok   == usb = "ok" /\ validate_response(got, total_received, 5 + length) = 0
        n    == IF ok THEN ExtractCount(length, 5, total_received) ELSE 0
    IN  [ret |-> IF ok THEN 0 ELSE 0 - 1,
         buf |-> IF usb = "ok" THEN got ELSE req,
         request_length |-> request_length,
         in_reads |-> IF usb = "out_fail" THEN 0 ELSE 1,
         total_received |-> IF usb = "ok" THEN total_received ELSE 0 - 1,
         out |-> [i \in 0 .. length - 1 |->
                    IF i < n THEN At(got, 5 + 6 * (i \div 4) + (i % 4))
                    ELSE Unwritten],
         c |-> c, req |-> req]

ReadLens == {2, 8, 100, 168, 172}
ReadPackets == {64, BUF_SIZE}

OpReadMemory ==
    \E addr \in {16}, length \in ReadLens, pkt \in ReadPackets,
       how \in {<<"ok", HDR_MEMREAD, STATUS_OK>>, <<"ok", HDR_STANDARD, 17>>,
                <<"ok", <<0, 102>>, STATUS_OK>>, <<"in_fail", HDR_MEMREAD, STATUS_OK>>,
                <<"out_fail", HDR_MEMREAD, STATUS_OK>>} :
      LET usb == how[1]  hdr == how[2]  status == how[3] IN
        \E r \in {cmd_0717_read_memory(g_cmd_buffer, addr, length, usb, pkt, hdr,
                                         status)} :
            /\ pod_count < MaxPodOps
            /\ pod_last.op # None /\ pod_last.started
            /\ pod_count' = pod_count + 1
            /\ g_cmd_buffer' = r.buf
            /\ pod_last' = [op |-> "cmd_0717_read_memory", ret |-> r.ret,
                            trace |-> <<[name |-> r.c.name,
                                         hdr |-> SubSeq(r.req, 1, 16),
                                         ret |-> r.ret, in_reads |-> r.in_reads]>>,
                            prev |-> g_cmd_buffer, req |-> r.req,
                            hlen |-> Len(r.c.bytes),
                            resp_len |-> r.total_received,
                            resp5 |-> IF usb = "ok"
                                      THEN SubSeq(r.buf, 1, 5) ELSE <<>>,
                            via |-> r.c.via, started |-> TRUE,
                            addr |-> addr, length |-> length,
                            request_length |-> r.request_length, out |-> r.out]

NextPod ==
    \/ OpInitTarget
    \/ OpCmd0712
    \/ OpCmd0719
    \/ OpBdmGo
    \/ OpBdmResume
    \/ OpWriteCpuRegister
    \/ OpWritePbr
    \/ OpWriteTdr
    \/ OpWriteAblr
    \/ OpWriteAbhr
    \/ OpSimpleFlashRunOp
    \/ OpReadMemory

SpecPod == Init /\ [][NextPod /\ UNCHANGED <<coordVars, rxVars, flashVars, bpVars,
                                             fnVars>>]_vars

(***************************************************************************)
(* Properties of the command layer (checked under SpecPod)                 *)
(***************************************************************************)
\* The operation consisted of one command that reads a response, and
\* returned that command's result.
OneCommandWithResponse ==
    /\ pod_last.op # None
    /\ Len(pod_last.trace) = 1
    /\ pod_last.via # "none"

\* A response of len bytes beginning with r5 passes the validator.
ValidResponse(r5, len) ==
    /\ len >= 5
    /\ <<r5[1], r5[2]>> \in {HDR_STANDARD, HDR_MEMREAD}
    /\ r5[5] = STATUS_OK

\* C22: a command that has a response reports success only if the response
\* is at least 5 bytes long, starts with 99 66 or 88 A5 and carries status EE.
C22_InvalidResponseIsError ==
    (OneCommandWithResponse /\ pod_last.ret = 0) =>
        ValidResponse(pod_last.resp5, pod_last.resp_len)

\* C23: the bytes of an outgoing request past the command's header and
\* payload are the bytes the buffer held at those positions before, i.e.
\* those of the previous response.
C23_BufferTailPreserved ==
    pod_last.op # None =>
        \A i \in BufIdx :
            i >= pod_last.hlen => At(pod_last.req, i) = At(pod_last.prev, i)

\* e is a 07 14 write of the PC (register 0x080F) that the pod took.
IsPcWrite(e) ==
    /\ e.name = "07 14"
    /\ <<e.hdr[7], e.hdr[8]>> = <<40, 128>>
    /\ <<e.hdr[11], e.hdr[12]>> = <<HiByte(BDM_REG_PC), LoByte(BDM_REG_PC)>>
    /\ e.ret = 0
\* e is the sync 07 12 FFFF.
IsSync(e) ==
    /\ e.name = "07 12"
    /\ <<e.hdr[7], e.hdr[8]>> = <<HiByte(SYNC_PARAM), LoByte(SYNC_PARAM)>>

\* C24: in every operation, the command that follows a write of the PC is
\* the sync 07 12 FFFF.
C24_PcWriteThenSync ==
    pod_last.op # None =>
        \A i \in 1 .. Len(pod_last.trace) :
            IsPcWrite(pod_last.trace[i]) =>
                (i < Len(pod_last.trace) /\ IsSync(pod_last.trace[i + 1]))

\* e is WDMREG for the debug register drc.
IsWdmreg(e, drc) ==
    /\ e.name = "07 14"
    /\ <<e.hdr[7], e.hdr[8]>> = <<44, Or42(drc % 32)>>
    /\ e.hdr[12] = drc
DebugRegsOf(op) ==
    IF op = "write_pbr" THEN {pbr_reg[k] : k \in 1 .. 4}
    ELSE IF op = "write_tdr" THEN {DEBUG_REG_TDR}
    ELSE IF op = "write_ablr" THEN {DEBUG_REG_ABLR}
    ELSE {DEBUG_REG_ABHR}

\* C25: a write of TDR, PBR0..3, ABLR or ABHR that succeeds has issued
\* WDMREG with the register's DRc and then the sync 07 12 FFFF.
C25_DebugRegWriteIsWdmregThenSync ==
    (pod_last.op \in {"write_pbr", "write_tdr", "write_ablr", "write_abhr"}
     /\ pod_last.ret = 0) =>
        /\ Len(pod_last.trace) = 2
        /\ \E drc \in DebugRegsOf(pod_last.op) : IsWdmreg(pod_last.trace[1], drc)
        /\ IsSync(pod_last.trace[2])

\* C26: BDM GO makes no IN transfer, and a pod that sends nothing back does
\* not make it fail.
C26_BdmGoExpectsNoResponse ==
    pod_last.op = "cmd_07_02_bdm_go" =>
        /\ pod_last.trace[1].in_reads = 0
        /\ (pod_last.trace[1].in_reads > 0 /\ pod_last.resp_len < 0) => pod_last.ret = 0

\* C27: a read of N bytes asks for ceil(N/4)*6 raw bytes, and when it
\* reports success every one of the N output bytes holds the target's byte.
C27_ReadMemoryComplete ==
    pod_last.op = "cmd_0717_read_memory" =>
        /\ pod_last.request_length = 6 * ((pod_last.length + 3) \div 4)
        /\ pod_last.ret = 0 =>
            \A i \in 0 .. pod_last.length - 1 :
                pod_last.out[i] = TargetByte(pod_last.addr + i)

\* C30: if any command of bring-up fails, startup is aborted: the server
\* never gets to accept a client.
C30_BringUpErrorsFatal ==
    pod_last.op = "init_target" =>
        ((\E i \in 1 .. Len(pod_last.trace) : pod_last.trace[i].ret # 0)
            => ~pod_last.started)

(***************************************************************************)
(* The receive loop and TCP segmentation (checked under SpecRx)            *)
(***************************************************************************)
\* Bytes of the connection that recv has returned so far.
RxReceived == Len(rx_stream) - Len(rx_sock)

\* C31: a packet is checksum-verified and acknowledged or rejected only
\* after its '#' and both checksum characters have been received, wherever
\* the stream is split.
C31_DecidedOnlyWhenComplete ==
    \A k \in 1 .. Len(rx_last) :
        rx_last[k][1] \in {"+", "-"} => rx_last[k][3] + 3 <= RxReceived

\* C32: whenever handle_client is about to call recv, 0 <= buf_pos <
\* MAX_PACKET_SIZE; buf_pos is what is left between the parse pointer and
\* buffer + buf_pos, so the parse pointer has not passed the received data.
C32_BufPosInBounds ==
    conn = "open" => (0 <= buf_pos /\ buf_pos < MAX_PACKET_SIZE)

(***************************************************************************)
(* SpecRxFrames: the receive loop fed with well-formed packets whose size  *)
(* is within the advertised PacketSize                                     *)
(***************************************************************************)
\* qSupported advertises PacketSize=1000 (hex): MAX_PACKET_SIZE bytes.
PacketSize == MAX_PACKET_SIZE
\* The lower-case hex digit of a nibble.
HexChar(n) == IF n < 10 THEN 48 + n ELSE 87 + n
\* '$' payload '#' and the two checksum digits.
Frame(payload) ==
    <<CH_DOLLAR>> \o payload
        \o <<CH_HASH, HexChar(calc_checksum(payload) \div 16),
                      HexChar(calc_checksum(payload) % 16)>>
\* Payload bytes of the packets the client sends ('3' and '4').
FrameBytes == {51, 52}
RECURSIVE SeqsOfLen(_, _)
SeqsOfLen(S, n) ==
    IF n = 0 THEN {<<>>}
    ELSE {Append(s, b) : s \in SeqsOfLen(S, n - 1), b \in S}
\* Every well-formed packet of at most PacketSize bytes, frame included.
Frames ==
    {Frame(p) : p \in UNION {SeqsOfLen(FrameBytes, n) : n \in 1 .. (PacketSize - 4)}}

\* The client writes the next byte of a well-formed packet.
ClientSendFrame ==
    /\ conn = "open"
    /\ \E f \in Frames :
          /\ Len(rx_stream) < Len(f)
          /\ SubSeq(f, 1, Len(rx_stream)) = rx_stream
          /\ rx_sock' = Append(rx_sock, f[Len(rx_stream) + 1])
          /\ rx_stream' = Append(rx_stream, f[Len(rx_stream) + 1])
    /\ UNCHANGED <<rx_buffer, buf_pos, rx_base, rx_last, rx_oob>>
    /\ UNCHANGED coordVars

NextRxFrames ==
    \/ RxAccept
    \/ ClientSendFrame
    \/ RecvData
    \/ RecvEof

SpecRxFrames ==
    Init /\ [][NextRxFrames /\ UNCHANGED <<flashVars, bpVars, fnVars, podVars>>]_vars

\* The packet the client has sent completely is in buffer and socket, whole
\* and undecided.
FramePending ==
    /\ conn = "open"
    /\ rx_stream \in Frames
    /\ buf_pos = Len(rx_buffer)
    /\ rx_buffer \o rx_sock = rx_stream

\* C33: a packet within the advertised PacketSize that the client has sent
\* completely is received and answered: every recv that returns all the
\* bytes it asked for either acknowledges the packet, or leaves it pending
\* with room in the buffer for the rest; the session is not dropped.
C33_AdvertisedSizeAnswered ==
    [][ (/\ FramePending
         /\ rx_sock # <<>>
         /\ rx_stream' = rx_stream
         /\ rx_sock' # rx_sock
         /\ Len(rx_sock') = (IF Len(rx_sock) > MAX_PACKET_SIZE - buf_pos - 1
                             THEN Len(rx_sock) - (MAX_PACKET_SIZE - buf_pos - 1)
                             ELSE 0))
        => \/ FramePending' /\ MAX_PACKET_SIZE - buf_pos' - 1 > 0
           \/ /\ conn' = "open"
              /\ \E k \in 1 .. Len(rx_last') : rx_last'[k][1] = "+" ]_vars

(***************************************************************************)
(* The shadow TDR and the tracking tables (checked under SpecBp)           *)
(***************************************************************************)
\* tdr_shadow says what the tables say: slot bit 24+n iff slot n is in use,
\* EPC1 iff some hardware breakpoint is in use, EAR1 iff the watchpoint is
\* active.
TdrShadowAgrees ==
    /\ \A n \in Slots :
          (TdrSlotBit(n) \subseteq tdr_shadow) <=> (hw_breakpoint_used[n] = 1)
    /\ (TDR_EPC1 \subseteq tdr_shadow) <=> (\E n \in Slots : hw_breakpoint_used[n] = 1)
    /\ (TDR_EAR1 \subseteq tdr_shadow) <=> (watchpoints.active = 1)

\* C34: after every Z/z packet, also one whose BDM writes fail, tdr_shadow
\* agrees with the tracking tables, and a Z packet answered with an error
\* has changed neither tdr_shadow nor the tables.
C34_TdrShadowAgreesWithTables ==
    [][ /\ TdrShadowAgrees'
        /\ (bp_count' # bp_count /\ bp_last'.op = "Z" /\ bp_last'.reply # <<"OK">>)
              => UNCHANGED <<tdr_shadow, hw_breakpoints, hw_breakpoint_used,
                             watchpoints>> ]_vars

\* C35: while the watchpoint is active, tdr_shadow has TRC_HALT, EBL1 and
\* EAR1 set, whatever hardware breakpoints were set and removed meanwhile.
C35_WatchpointStaysArmed ==
    watchpoints.active = 1 =>
        (TDR_TRC_HALT \cup TDR_EBL1 \cup TDR_EAR1) \subseteq tdr_shadow

(***************************************************************************)
(* SpecBpSw: Z0/z0 packets once the hardware slots are taken, no transfer  *)
(* failing                                                                 *)
(***************************************************************************)
\* Z/z packets handled in one run.
MaxSwPackets == 8

\* Z0 or Z1: handle_set_breakpoint.  Z0 tries a hardware slot first and
\* falls back to the software table.
BpSwInsert ==
    /\ bp_count < MaxSwPackets
    /\ bp_count' = bp_count + 1
    /\ bp_faults' = bp_faults
    /\ \E type \in {0, 1}, addr \in BpAddrs : BpInsert(type, addr, WatchKind, "ok")

\* z0: handle_remove_breakpoint.
BpSwRemove ==
    /\ bp_count < MaxSwPackets
    /\ bp_count' = bp_count + 1
    /\ bp_faults' = bp_faults
    /\ \E addr \in BpAddrs : BpRemove(0, addr, WatchKind, "ok")

NextBpSw ==
    \/ BpAccept
    \/ BpSwInsert
    \/ BpSwRemove

SpecBpSw == Init /\ [][NextBpSw]_vars

\* C36: a saved instruction is never the HALT opcode an earlier insert
\* wrote, and when no software breakpoint is active every memory location
\* holds the program's original bytes again.
C36_SwBreakpointsRestoreMemory ==
    /\ \A s \in SwSlots :
          sw_breakpoints[s].active = 1 =>
              sw_breakpoints[s].original_insn # COLDFIRE_HALT_OPCODE
    /\ (\A s \in SwSlots : sw_breakpoints[s].active = 0) => tgt_mem = ProgramImage

(***************************************************************************)
(* SpecMem: the packet M addr,len:hex on a small target memory             *)
(***************************************************************************)
\* Bytes of target memory in the model, and M packets handled in one run.
MemSize == 8
MaxMemPackets == 2
MemBytes == 0 .. (MemSize - 1)
\* Lengths an M packet carries (0 up to one byte more than a word).
WriteLens == 0 .. (WORD + 1)
\* The target's memory before the first write: no byte is 0.
MemImage == [a \in MemBytes |-> 160 + a]
\* Byte k of the packet's hex data.
WriteData(k) == 17 + k

\* What the pod's 07 19 does to the target: the 32-bit value is stored
\* big-endian at addr .. addr+3.
Write32(mem, addr, value) ==
    [a \in MemBytes |->
        IF a >= addr /\ a < addr + WORD
        THEN (value \div (256 ^ (WORD - 1 - (a - addr)))) % 256
        ELSE mem[a]]

\* value |= byte << (24 - j*8) for the bytes_to_write bytes of the chunk at i.
RECURSIVE ChunkValue(_, _, _)
ChunkValue(i, j, bytes_to_write) ==
    IF j >= bytes_to_write THEN 0
    ELSE WriteData(i + j) * (256 ^ (WORD - 1 - j)) + ChunkValue(i, j + 1, bytes_to_write)

\* handle_write_memory's loop from offset i; fail_at is the offset whose
\* cmd_07_19 fails (-1: none).  Returns the memory and the reply.
RECURSIVE handle_write_memory(_, _, _, _, _)
handle_write_memory(mem, addr, len, i, fail_at) ==
    IF i >= len THEN [mem |-> mem, reply |-> <<"OK">>]
    ELSE IF i = fail_at THEN [mem |-> mem, reply |-> <<"E", 5>>]
    ELSE handle_write_memory(
            Write32(mem, addr + i,
                    ChunkValue(i, 0, IF len - i >= WORD THEN WORD ELSE len - i)),
            addr, len, i + WORD, fail_at)

MemOf(l) == IF l.op = "M" THEN l.mem ELSE MemImage
MemCount(l) == IF l.op = "M" THEN l.n ELSE 0

\* The client sends M addr,len:hex with 2*len hex digits.
PktWriteMemory ==
    /\ fn_last.op \in {None, "M"}
    /\ MemCount(fn_last) < MaxMemPackets
    /\ \E addr \in MemBytes, len \in WriteLens, fail_at \in {0 - 1, 0, WORD} :
          /\ addr + len + WORD - 1 <= MemSize
          /\ LET r == handle_write_memory(MemOf(fn_last), addr, len, 0, fail_at)
             IN  fn_last' = [op |-> "M", addr |-> addr, len |-> len,
                             before |-> MemOf(fn_last), mem |-> r.mem,
                             reply |-> r.reply, n |-> MemCount(fn_last) + 1]

SpecMem ==
    Init /\ [][PktWriteMemory /\ UNCHANGED <<coordVars, rxVars, flashVars, bpVars,
                                              podVars>>]_vars

\* C37: M addr,len:hex changes only the target bytes in [addr, addr+len);
\* the bytes after addr+len that share the last written word keep their
\* values.
C37_WriteMemoryFrame ==
    fn_last.op = "M" =>
        \A a \in MemBytes :
            (a < fn_last.addr \/ a >= fn_last.addr + fn_last.len)
                => fn_last.mem[a] = fn_last.before[a]

(***************************************************************************)
(* Stop replies (checked under Spec)                                       *)
(***************************************************************************)
\* The S05 / T05 replies among the replies of the last handled packet.
StopRepliesOf(l) ==
    {k \in 1 .. Len(l.replies) : l.replies[k][1] \in StopReplies}

\* S05 / T05 go out only for '?', 'c' and 's' (vCont;c and vCont;s run the
\* handlers of 'c' and 's'), one per packet.
StopReplyOnlyOnRequest ==
    /\ StopRepliesOf(last) # {} => last.pkt \in {"?", "c", "s"}
    /\ last.pkt \in {"?", "c", "s"} => Cardinality(StopRepliesOf(last)) = 1

\* C38: a stop reply is sent only in response to '?', 'c', 's' or vCont,
\* exactly one per such packet, and a 0x03 byte read after the continue has
\* finished and reported its stop produces no further stop reply (S05, T05
\* or the SIGINT stop reply S02).
C38_OneStopReplyPerResume ==
    [][ /\ StopReplyOnlyOnRequest'
        /\ (last.pkt = "c" /\ StopRepliesOf(last) # {} /\ last'.pkt = "0x03")
              => \A k \in 1 .. Len(last'.replies) :
                    last'.replies[k][1] \notin (StopReplies \cup {"S02"}) ]_vars


(***************************************************************************)
(* vFlash cycles across connections: main's accept loop, `k` and `D`       *)
(***************************************************************************)
\* recv returns <= 0 and main closes the socket: flash_state is a static
\* object that neither handle_client nor main touches, so the staged buffer
\* survives; only the client's own cycle ends here.
FlashDisconnect ==
    /\ ClientDisconnect
    /\ vf_last' = VfLast("eof", <<>>)
    /\ vf_writes' = <<>>
    /\ UNCHANGED <<flash_state, flash, vf_erased, vf_count, vf_ops>>

\* process_command, case 'k' (no reply) and case 'D' (OK): the connection
\* stays open and flash_state is not touched.
PktKillDetach ==
    /\ conn = "open"
    /\ vf_count < MaxFlashPackets
    /\ vf_count' = vf_count + 1
    /\ \E c \in {"k", "D"} :
          vf_last' = VfLast(c, IF c = "D" THEN <<"OK">> ELSE <<>>)
    /\ vf_writes' = <<>>
    /\ UNCHANGED <<flash_state, flash, vf_erased, vf_ops>>
    /\ UNCHANGED <<g_target_halted, g_step_count, g_cached_pc,
                   g_registers_initialized, hw_breakpoints, hw_breakpoint_used,
                   watchpoints, tdr_shadow, conn, last, steps_since_reset,
                   tgt_running, tgt_pc>>

NextFlashConn ==
    \/ FlashAccept
    \/ PktVFlash
    \/ FlashDisconnect
    \/ PktKillDetach

SpecFlashConn ==
    Init /\ [][NextFlashConn /\ UNCHANGED <<rxVars, bpVars, fnVars, podVars>>]_vars

\* Every staged byte of st below write_len that is not 0xFF was sent by one
\* of the writes ws, at the flash address it is staged for.
StagedFrom(st, ws) ==
    \A i \in 1 .. st.write_len :
        st.write_buffer[i] # ERASED =>
            \E k \in 1 .. Len(ws) :
                LET a == st.write_addr + i - 1
                IN  /\ ws[k][1] <= a
                    /\ a < ws[k][1] + Len(ws[k][2])
                    /\ ws[k][2][a - ws[k][1] + 1] = st.write_buffer[i]

\* C39: the first accepted vFlashWrite of a cycle (after a connection, a
\* `k`, a `D` or a vFlashDone) stages into a 0xFF-filled buffer based at its
\* own address, and a vFlashDone programs only bytes that were written in
\* its own cycle, never bytes staged in an abandoned one.
C39_FlashSessionStartsEmpty ==
    [][ /\ (/\ vf_count' # vf_count
            /\ SessionWrites = <<>>
            /\ vf_last'.pkt = "vFlashWrite"
            /\ vf_last'.reply = <<"OK">>
            /\ vf_last'.len > 0)
           => /\ flash_state'.write_addr = vf_last'.addr
              /\ flash_state'.write_len = vf_last'.len
              /\ \A i \in 1 .. FLASH_SIZE :
                    i > vf_last'.len => flash_state'.write_buffer[i] = ERASED
        /\ (/\ vf_count' # vf_count
            /\ vf_last'.pkt = "vFlashDone"
            /\ vf_last'.reply = <<"OK">>
            /\ flash_state.write_buffer # <<>>)
           => StagedFrom(flash_state, SessionWrites)
      ]_vars


(***************************************************************************)
(* Bounds of the vFlash staging buffer                                     *)
(***************************************************************************)
\* The staged buffer before a write: the allocated one, or the 0xFF-filled
\* one the write allocates.
StagedBefore ==
    IF flash_state.write_buffer = <<>>
    THEN [i \in 1 .. FLASH_SIZE |-> ERASED]
    ELSE flash_state.write_buffer

\* What vFlashDone would hand to flash_program_region lies in the allocated
\* buffer and in flash.
StagedWithinFlash ==
    flash_state.write_buffer # <<>> =>
        /\ Len(flash_state.write_buffer) = flash_state.write_capacity
        /\ flash_state.write_len <= flash_state.write_capacity
        /\ flash_state.write_addr + flash_state.write_len <= FLASH_SIZE

\* C40: every accepted non-empty vFlashWrite ends at or below the end of
\* flash and is copied to bytes [addr - write_addr, addr - write_addr + len)
\* of the staged buffer, which lie within [0, write_capacity), no other
\* byte of the buffer changing; and the staged range that vFlashDone
\* programs never leaves the buffer or the flash.
C40_StagingCopyInBounds ==
    [][ /\ StagedWithinFlash'
        /\ (/\ vf_count' # vf_count
            /\ vf_last'.pkt = "vFlashWrite"
            /\ vf_last'.reply = <<"OK">>
            /\ vf_last'.len > 0)
           => LET off == vf_last'.addr - flash_state'.write_addr
              IN  /\ vf_last'.addr + vf_last'.len <= FLASH_SIZE
                  /\ 0 <= off
                  /\ off + vf_last'.len <= flash_state'.write_capacity
                  /\ \A i \in 1 .. FLASH_SIZE :
                        (i <= off \/ i > off + vf_last'.len) =>
                            flash_state'.write_buffer[i] = StagedBefore[i]
      ]_vars

\* A write accepted above the base address that ends exactly at the end of
\* the buffer and of flash.
C40_Witness ==
    /\ vf_last.pkt = "vFlashWrite"
    /\ vf_last.reply = <<"OK">>
    /\ vf_last.addr > flash_state.write_addr
    /\ vf_last.addr + vf_last.len = FLASH_SIZE
    /\ flash_state.write_len = flash_state.write_capacity

\* A write below the base address, long enough to reach the base, was
\* refused.
C40_WrapRefused ==
    /\ vf_last.pkt = "vFlashWrite"
    /\ vf_last.reply = <<"E", 14>>
    /\ flash_state.write_buffer # <<>>
    /\ vf_last.addr < flash_state.write_addr
    /\ vf_last.addr + vf_last.len > flash_state.write_addr
    /\ vf_last.addr + vf_last.len <= FLASH_SIZE

====
